---- MODULE Spec2Model ----
(***************************************************************************)
(* Model of the upload orchestration of amunozsesma/file-uploader.         *)
(*                                                                         *)
(* The client side is the React hook useFileUploader                       *)
(* (src/unnamed/part_000, lines 40-210).  Its state is the React state     *)
(* isUploading, the ref uploadAttempted, and the closures of the last      *)
(* render: uploadFile reads the isUploading value that the render which    *)
(* created it captured, not the latest value handed to setIsUploading.     *)
(* Every invocation of uploadFile (and of the effect's performUpload) is   *)
(* an entry of `calls`; the network operations of an invocation complete   *)
(* in separate steps, in any order across invocations.                     *)
(***************************************************************************)
EXTENDS Integers, Sequences, FiniteSets, TLC

\* ------------------------------------------------------------------ bounds
\* number of uploadFile / performUpload invocations followed in one behaviour
MaxCalls == 2

\* ------------------------------------------------------------ input domains
MiB == 1048576

\* maxFileSize values a caller passes (bytes)
MaxFileSizes == {MiB + (MiB \div 2)}

\* File.type values
FileTypes == {"audio/mpeg", "image/png"}

\* allowedFileTypes: string[] | '*'  (wild = TRUE stands for the literal '*')
WildCard == [wild |-> TRUE, list |-> <<>>]

TypeList(l) == [wild |-> FALSE, list |-> l]

AllowedChoices == {WildCard, TypeList(<<"audio/mpeg">>)}

\* File.size values around the limit m
FileSizes(m) == {m - 1, m, m + 1}

\* the File objects handed to uploadFile: at the limit, above it, and of a
\* type outside the list (the validator specification draws from more)
Files(m) ==
    {[type |-> "audio/mpeg", size |-> m], [type |-> "audio/mpeg", size |-> m + 1],
     [type |-> "image/png", size |-> m + 1]}

\* the values of the `file` prop besides null
FileProps(m) == {[type |-> "audio/mpeg", size |-> m]}

\* the `file` prop of the hook: File | null
NoFile == [type |-> "null", size |-> 0]

\* object keys the upload endpoint answers with (uploads/<uuid>/<fileName>):
\* every issuance draws a fresh uuid, so the n-th request gets the n-th key
Keys == <<"uploads/u1/a", "uploads/u2/a", "uploads/u3/a", "uploads/u4/a",
         "uploads/u5/a">>

NoKey == "none"

\* --------------------------------------------------------------- Error values
\* an Error object: what kind of failure made it and its message parts
NoError == [kind |-> "none", text |-> "", mb |-> 0, types |-> <<>>]

MkError(k, t) == [kind |-> k, text |-> t, mb |-> 0, types |-> <<>>]

\* Math.round(x / d) for x >= 0, d > 0: rounds half up
MathRoundDiv(x, d) == (2 * x + d) \div (2 * d)

\* Array.prototype.includes
Includes(list, x) == \E i \in DOMAIN list : list[i] = x

\* ------------------------------------------------------------- validation
\* the inline checks of uploadFile: the Error thrown, or NoError
validateMutGE(f, allowed, maxSize) ==
    IF ~allowed.wild /\ ~Includes(allowed.list, f.type)
    THEN [kind |-> "type", text |-> "File type not supported. Allowed types: ",
          mb |-> 0, types |-> allowed.list]
    ELSE IF f.size >= maxSize
    THEN [kind |-> "size", text |-> "File too large (max MB)",
          mb |-> MathRoundDiv(maxSize, 1024 * 1024), types |-> <<>>]
    ELSE NoError

validateMutFloor(f, allowed, maxSize) ==
    IF ~allowed.wild /\ ~Includes(allowed.list, f.type)
    THEN [kind |-> "type", text |-> "File type not supported. Allowed types: ",
          mb |-> 0, types |-> allowed.list]
    ELSE IF f.size > maxSize
    THEN [kind |-> "size", text |-> "File too large (max MB)",
          mb |-> maxSize \div (1024 * 1024), types |-> <<>>]
    ELSE NoError

validate(f, allowed, maxSize) ==
    IF ~allowed.wild /\ ~Includes(allowed.list, f.type)
    THEN [kind |-> "type", text |-> "File type not supported. Allowed types: ",
          mb |-> 0, types |-> allowed.list]
    ELSE IF f.size > maxSize
    THEN [kind |-> "size", text |-> "File too large (max MB)",
          mb |-> MathRoundDiv(maxSize, 1024 * 1024), types |-> <<>>]
    ELSE NoError

\* ------------------------------------------------------------------- state
VARIABLES
    allowedFileTypes,   \* prop
    maxFileSize,        \* prop
    onUploadError,      \* prop: what the callback does when called (returns, throws)
    file,               \* prop: File | null
    isUploading,        \* React state: the value last handed to setIsUploading
    renderedIsUploading,\* isUploading as captured by the closures of the last render
    uploadAttempted,    \* useRef(false).current
    effectDeps,         \* dependency values of the last effect run
    calls,              \* the invocations of uploadFile / performUpload so far
    lastOp,             \* "reset" when the last step was a reset() call
    handlerConfig,      \* the config the upload route handler was created with
    handled,            \* the requests the upload route handler has answered
    xhr,                \* one run of uploadToS3: its FormData, XMLHttpRequest and promise
    issued,             \* the calls of createPresignedUploadUrl that returned
    bucket,             \* the objects the storage backend holds
    downloadOptions,    \* the options the download route handler was created with
    downloads,          \* the download requests answered and getFileByS3Key calls made
    pendingEffect,      \* the effect of a committed render that has not run yet
    legacy              \* one mounted FileUploader component

vars == <<allowedFileTypes, maxFileSize, onUploadError, file, isUploading, renderedIsUploading,
          uploadAttempted, effectDeps, calls, lastOp, handlerConfig, handled,
          xhr, issued, bucket, downloadOptions, downloads, pendingEffect, legacy>>

props == <<allowedFileTypes, maxFileSize, onUploadError, file>>

\* the variables of the upload route
server == <<handlerConfig, handled>>

\* the variables of one isolated transfer
transfer == <<xhr>>

\* the variables of the storage backend and of the download route
storage == <<issued, bucket, downloadOptions, downloads>>

\* the variables of the hook
client == <<allowedFileTypes, maxFileSize, onUploadError, file, isUploading, renderedIsUploading,
            uploadAttempted, effectDeps, calls, lastOp, pendingEffect>>

\* no route handler is part of the behaviour
NoHandler == [allowedFileTypes |-> WildCard, maxFileSize |-> 0, s3Client |-> FALSE,
              created |-> "none", route |-> "none"]

\* no uploadToS3 run is part of the behaviour
NoXhr == [state |-> "none", fields |-> <<>>, payload |-> "", body |-> <<>>,
          total |-> 0, loaded |-> 0, events |-> 0, progress |-> <<>>,
          promise |-> "none", outcome |-> [event |-> "none", status |-> 0]]

\* no download route handler is part of the behaviour
NoDownloadHandler == [s3Client |-> FALSE, onDownload |-> "none", created |-> "none"]

\* nothing was issued, stored or downloaded
StorageUnused ==
    /\ issued = <<>>
    /\ bucket = {}
    /\ downloadOptions = NoDownloadHandler
    /\ downloads = <<>>

\* no effect is waiting to run
NoEffect == [pending |-> FALSE, file |-> NoFile, isUploading |-> FALSE]

\* no FileUploader component is mounted
NoLegacy == [version |-> 0, file |-> NoFile, fileChanges |-> 0, isUploading |-> FALSE,
             uploadAttempted |-> FALSE, attempts |-> <<>>]

\* the hook, the component and the upload route are not part of the behaviour
HookUnused ==
    /\ allowedFileTypes = WildCard
    /\ maxFileSize = 0
    /\ onUploadError = "returns"
    /\ file = NoFile
    /\ isUploading = FALSE
    /\ renderedIsUploading = FALSE
    /\ uploadAttempted = FALSE
    /\ effectDeps = <<NoFile, FALSE, FALSE>>
    /\ calls = <<>>
    /\ lastOp = "other"
    /\ pendingEffect = NoEffect
    /\ legacy = NoLegacy
    /\ handlerConfig = NoHandler
    /\ handled = <<>>

\* ----------------------------------------------------- network outcomes
\* what the fetch of the upload endpoint can come back with:
\* a transport failure, a non-2xx answer (JSON body with a message, or a
\* body without one), or a 2xx answer carrying the object key
\* (n is the number of the request: its answer carries the n-th fresh key)
CredResponses(n) ==
    {[transport |-> TRUE, ok |-> FALSE, message |-> "", key |-> NoKey],
     [transport |-> FALSE, ok |-> FALSE, message |-> "", key |-> NoKey],
     [transport |-> FALSE, ok |-> FALSE, message |-> "Denied", key |-> NoKey],
     [transport |-> FALSE, ok |-> TRUE, message |-> "", key |-> Keys[n]]}

\* the answers the hook's fetch gets in the hook specification: error answers
\* are those without a JSON message, as the upload routes of this repository
\* send them (new NextResponse(text, ...)); the component specification draws
\* from all of CredResponses
HookCredResponses(n) == {resp \in CredResponses(n) : resp.message = ""}

NoResponse == [transport |-> FALSE, ok |-> FALSE, message |-> "none", key |-> NoKey]

\* what the XMLHttpRequest can end with: a load event with a status, or an
\* error event (status 0)
XhrOutcomes ==
    {[event |-> "load", status |-> 204], [event |-> "load", status |-> 200],
     [event |-> "load", status |-> 403], [event |-> "error", status |-> 0]}

\* what the caller's onUploadComplete does: return, throw an Error, or throw
\* a value that is not an Error
CallbackBehaviours == {"returns", "throwsError", "throwsValue"}

\* what the caller's onUploadError does when it is called: return, or throw
ErrorCallbackBehaviours == {"returns", "throws"}

\* the exception a throwing onUploadError raises
ThrownByOnUploadError == MkError("callback", "thrown by onUploadError")

\* getUploaddUrl: the Error it throws for a response, NoError when it
\* returns the parsed body
getUploaddUrlMutNoOkCheck(resp) ==
    IF resp.transport THEN MkError("transport", "Failed to fetch")
    ELSE NoError

getUploaddUrl(resp) ==
    IF resp.transport THEN MkError("transport", "Failed to fetch")
    ELSE IF ~resp.ok
    THEN MkError("credential",
                 IF resp.message # "" THEN resp.message ELSE "Failed to get upload URL")
    ELSE NoError

\* uploadToS3: the Error its promise rejects with, NoError when it resolves
uploadToS3MutAny2xx(out) ==
    IF out.event = "load" /\ out.status >= 200 /\ out.status < 300 THEN NoError
    ELSE MkError("transfer", "Upload failed")

uploadToS3(out) ==
    IF out.event = "load" /\ out.status = 204 THEN NoError
    ELSE MkError("transfer", "Upload failed")

\* err instanceof Error ? err : new Error('Upload failed')
asError(thrown) ==
    IF thrown = "throwsError" THEN MkError("callback", "thrown by onUploadComplete")
    ELSE MkError("wrapped", "Upload failed")

\* ------------------------------------------------------------ invocations
\* one invocation of uploadFile (via = "uploadFile") or of the effect's
\* performUpload (via = "effect")
NewCall(via, f, inflight) ==
    [via |-> via, file |-> f,
     pc |-> "start",              \* start, cred, transfer, done
     guardStopped |-> FALSE,      \* returned at `if (isUploading) return`
     inflightAtCall |-> inflight, \* an earlier invocation was in cred or transfer
     validation |-> NoError,      \* the Error the inline validation threw
     credSent |-> FALSE,          \* fetch of the upload endpoint was issued
     credResp |-> NoResponse,     \* what that fetch came back with
     key |-> NoKey,               \* uploadPost.key
     transferSent |-> FALSE,      \* xhr.send was called
     completeCalls |-> 0, completeArg |-> NoKey,
     errorCalls |-> 0, errorArg |-> NoError,
     promise |-> "pending",       \* pending, resolved, rejected
     resolvedWith |-> "none", rejectedWith |-> NoError,
     resetMid |-> FALSE]          \* reset() ran while this one was transferring

InFlight(c) == c.pc \in {"cred", "transfer"}

\* onUploadComplete?.(uploadPost.key), the callback returning normally,
\* then the async function returning undefined
completeBlock(c) ==
    [c EXCEPT !.completeCalls = @ + 1, !.completeArg = c.key,
              !.promise = "resolved", !.resolvedWith = "undefined"]

\* onUploadComplete?.(uploadPost.key), the callback throwing
completeThrows(c) ==
    [c EXCEPT !.completeCalls = @ + 1, !.completeArg = c.key]

\* catch (err) { onUploadError?.(error); throw error; }
\* performUpload has no `throw error`: its promise resolves.  When
\* onUploadError (eb) throws, its exception leaves the catch block before
\* `throw error` and the promise rejects with that exception.
catchBlockMutNoCallback(c, e, eb) ==
    IF c.via = "uploadFile"
    THEN [c EXCEPT !.promise = "rejected", !.rejectedWith = e]
    ELSE [c EXCEPT !.promise = "resolved", !.resolvedWith = "undefined"]

catchBlock(c, e, eb) ==
    IF eb = "throws"
    THEN [c EXCEPT !.errorCalls = @ + 1, !.errorArg = e,
                   !.promise = "rejected", !.rejectedWith = ThrownByOnUploadError]
    ELSE IF c.via = "uploadFile"
    THEN [c EXCEPT !.errorCalls = @ + 1, !.errorArg = e,
                   !.promise = "rejected", !.rejectedWith = e]
    ELSE [c EXCEPT !.errorCalls = @ + 1, !.errorArg = e,
                   !.promise = "resolved", !.resolvedWith = "undefined"]

\* the body of the try block up to the first await: validation, then the
\* fetch issued by getUploaddUrl
tryBlockMutFetchFirst(c, allowed, maxSize, eb) ==
    LET e == validate(c.file, allowed, maxSize) IN
    IF e # NoError
    THEN [catchBlock([c EXCEPT !.validation = e, !.credSent = TRUE], e, eb)
              EXCEPT !.pc = "done"]
    ELSE [c EXCEPT !.pc = "cred", !.credSent = TRUE]

tryBlock(c, allowed, maxSize, eb) ==
    LET e == validate(c.file, allowed, maxSize) IN
    IF e # NoError
    THEN [catchBlock([c EXCEPT !.validation = e], e, eb) EXCEPT !.pc = "done"]
    ELSE [c EXCEPT !.pc = "cred", !.credSent = TRUE]

\* -------------------------------------------------------------------- Init
\* the hook after its first render: useState(false), useRef(false), and the
\* effect has run once with the mount-time dependencies; the policy is a type
\* list (the validator specification draws from more, '*' included)
Init ==
    /\ allowedFileTypes = TypeList(<<"audio/mpeg">>)
    /\ onUploadError \in ErrorCallbackBehaviours
    /\ maxFileSize \in MaxFileSizes
    /\ file = NoFile
    /\ isUploading = FALSE
    /\ renderedIsUploading = FALSE
    /\ uploadAttempted = FALSE
    /\ effectDeps = <<NoFile, FALSE, FALSE>>
    /\ calls = <<>>
    /\ lastOp = "other"
    /\ pendingEffect = NoEffect
    /\ legacy = NoLegacy
    /\ handlerConfig = NoHandler
    /\ handled = <<>>
    /\ xhr = NoXhr
    /\ StorageUnused

\* ----------------------------------------------------------------- actions
\* uploadFile(fileToUpload), run up to its first await (or to its end when
\* the guard returns or validation throws).  The guard reads the isUploading
\* of the render that created this closure.
uploadFile(f) ==
    /\ Len(calls) < MaxCalls
    /\ LET c0 == NewCall("uploadFile", f, \E i \in DOMAIN calls : InFlight(calls[i])) IN
       IF renderedIsUploading
       THEN /\ calls' = Append(calls, [c0 EXCEPT !.pc = "done", !.guardStopped = TRUE,
                                                 !.promise = "resolved",
                                                 !.resolvedWith = "undefined"])
            /\ UNCHANGED <<isUploading, uploadAttempted>>
       ELSE LET c1 == tryBlock(c0, allowedFileTypes, maxFileSize, onUploadError) IN
            /\ calls' = Append(calls, c1)
            \* uploadAttempted.current = true; setIsUploading(true); and on a
            \* validation error the finally block runs in the same turn
            /\ isUploading' = (c1.pc # "done")
            /\ uploadAttempted' = (c1.pc # "done")
    /\ lastOp' = "other"
    /\ UNCHANGED <<server, transfer, storage, legacy, pendingEffect, props, renderedIsUploading, effectDeps>>

\* the fetch of invocation i settles; getUploaddUrl returns or throws, and on
\* success uploadToS3 builds the form and calls xhr.send
CredentialResponse(i, resp) ==
    /\ i \in DOMAIN calls
    /\ calls[i].pc = "cred"
    /\ LET e == getUploaddUrl(resp)
           c == [calls[i] EXCEPT !.credResp = resp]
       IN IF e = NoError
          THEN /\ calls' = [calls EXCEPT ![i] = [c EXCEPT !.pc = "transfer",
                                                         !.key = resp.key,
                                                         !.transferSent = TRUE]]
               /\ UNCHANGED <<isUploading, uploadAttempted>>
          ELSE /\ calls' = [calls EXCEPT ![i] = [catchBlock(c, e, onUploadError) EXCEPT !.pc = "done"]]
               \* finally { setIsUploading(false); uploadAttempted.current = false }
               /\ isUploading' = FALSE
               /\ uploadAttempted' = FALSE
    /\ lastOp' = "other"
    /\ UNCHANGED <<server, transfer, storage, legacy, pendingEffect, props, renderedIsUploading, effectDeps>>

\* the XMLHttpRequest of invocation i ends; the rest of the try block, the
\* catch block and the finally block run
TransferResult(i, out, cb) ==
    /\ i \in DOMAIN calls
    /\ calls[i].pc = "transfer"
    /\ LET e == uploadToS3(out)
           c == calls[i]
       IN /\ (e # NoError => cb = "returns")
          /\ calls' = [calls EXCEPT ![i] =
                 [(IF e # NoError THEN catchBlock(c, e, onUploadError)
                   ELSE IF cb = "returns" THEN completeBlock(c)
                   ELSE catchBlock(completeThrows(c), asError(cb), onUploadError))
                  EXCEPT !.pc = "done"]]
    /\ isUploading' = FALSE
    /\ uploadAttempted' = FALSE
    /\ lastOp' = "other"
    /\ UNCHANGED <<server, transfer, storage, legacy, pendingEffect, props, renderedIsUploading, effectDeps>>

\* reset(): uploadAttempted.current = false; setIsUploading(false)
resetMutKeepRef ==
    /\ isUploading' = FALSE
    /\ calls' = [i \in DOMAIN calls |->
                    IF calls[i].pc = "transfer"
                    THEN [calls[i] EXCEPT !.resetMid = TRUE] ELSE calls[i]]
    /\ lastOp' = "reset"
    /\ UNCHANGED <<server, transfer, storage, legacy, pendingEffect, props, uploadAttempted, renderedIsUploading, effectDeps>>

reset ==
    /\ uploadAttempted' = FALSE
    /\ isUploading' = FALSE
    /\ calls' = [i \in DOMAIN calls |->
                    IF calls[i].pc = "transfer"
                    THEN [calls[i] EXCEPT !.resetMid = TRUE] ELSE calls[i]]
    /\ lastOp' = "reset"
    /\ UNCHANGED <<server, transfer, storage, legacy, pendingEffect, props, renderedIsUploading, effectDeps>>

\* the parent passes another `file` prop
setFile(f) ==
    /\ f # file
    /\ file' = f
    /\ lastOp' = "other"
    /\ UNCHANGED <<server, transfer, storage, legacy, pendingEffect, allowedFileTypes, maxFileSize,
                   onUploadError, isUploading, renderedIsUploading, uploadAttempted,
                   effectDeps, calls>>

\* React commits a render of the hook: the new closures capture the current
\* state, and when one of [file, isUploading, uploadAttempted.current] differs
\* from the last run the effect of this render is scheduled.  Effects of the
\* previous render are flushed before the next one.
Commit ==
    LET deps == <<file, isUploading, uploadAttempted>> IN
    /\ ~pendingEffect.pending
    /\ renderedIsUploading # isUploading \/ effectDeps # deps
    /\ renderedIsUploading' = isUploading
    /\ effectDeps' = deps
    /\ pendingEffect' = IF effectDeps # deps
                        THEN [pending |-> TRUE, file |-> file, isUploading |-> isUploading]
                        ELSE pendingEffect
    /\ lastOp' = "other"
    /\ UNCHANGED <<server, transfer, storage, legacy, props, isUploading, uploadAttempted,
                   calls>>

\* the scheduled effect runs: its guard reads the file and isUploading of the
\* render that created it and the current uploadAttempted.current;
\* performUpload then runs up to its first await
RunEffect ==
    /\ pendingEffect.pending
    /\ pendingEffect' = NoEffect
    /\ IF ~(pendingEffect.file = NoFile \/ pendingEffect.isUploading \/ ~uploadAttempted)
       THEN /\ Len(calls) < MaxCalls
            /\ LET c0 == NewCall("effect", pendingEffect.file,
                                 \E i \in DOMAIN calls : InFlight(calls[i]))
                   c1 == tryBlock(c0, allowedFileTypes, maxFileSize, onUploadError)
               IN /\ calls' = Append(calls, c1)
                  /\ isUploading' = (c1.pc # "done")
                  /\ uploadAttempted' = IF c1.pc = "done" THEN FALSE ELSE uploadAttempted
       ELSE UNCHANGED <<calls, isUploading, uploadAttempted>>
    /\ lastOp' = "other"
    /\ UNCHANGED <<server, transfer, storage, legacy, props, renderedIsUploading,
                   effectDeps>>

Next ==
    \/ \E f \in Files(maxFileSize) : uploadFile(f)
    \/ \E i \in 1..MaxCalls : \E resp \in HookCredResponses(i) :
           CredentialResponse(i, resp)
    \/ \E i \in 1..MaxCalls, out \in XhrOutcomes, cb \in CallbackBehaviours :
           TransferResult(i, out, cb)
    \/ reset
    \/ \E f \in {NoFile} \cup FileProps(maxFileSize) : setFile(f)
    \/ Commit
    \/ RunEffect

Spec == Init /\ [][Next]_vars

\* ------------------------------------------------- validator specification
\* uploadFile applied to files and policies drawn from wider sets; only the
\* part of uploadFile before its first await runs
PolicyLists ==
    {WildCard, TypeList(<<>>), TypeList(<<"audio/mpeg">>),
     TypeList(<<"audio/wav", "image/png">>)}

PolicySizes == {0, MiB, MiB + (MiB \div 2) - 1, MiB + (MiB \div 2), 5 * MiB}

PolicyFiles(m) == [type : FileTypes \cup {"audio/wav", ""},
                   size : {s \in FileSizes(m) \cup {0} : s >= 0}]

ValidatorInit ==
    /\ allowedFileTypes \in PolicyLists
    /\ onUploadError \in ErrorCallbackBehaviours
    /\ maxFileSize \in PolicySizes
    /\ file = NoFile
    /\ isUploading = FALSE
    /\ renderedIsUploading = FALSE
    /\ uploadAttempted = FALSE
    /\ effectDeps = <<NoFile, FALSE, FALSE>>
    /\ calls = <<>>
    /\ lastOp = "other"
    /\ pendingEffect = NoEffect
    /\ legacy = NoLegacy
    /\ handlerConfig = NoHandler
    /\ handled = <<>>
    /\ xhr = NoXhr
    /\ StorageUnused

ValidatorNext == \E f \in PolicyFiles(maxFileSize) : uploadFile(f)

ValidatorSpec == ValidatorInit /\ [][ValidatorNext]_vars

\* ------------------------------------------------------------------ claims
Calls == DOMAIN calls

\* the rejection rule as the specification states it
RejectedByPolicy(f, allowed, maxSize) ==
    \/ ~allowed.wild /\ \A i \in DOMAIN allowed.list : allowed.list[i] # f.type
    \/ f.size > maxSize

\* the credential request of invocation i came back as a failure
CredentialFailed(c) ==
    c.credResp # NoResponse /\ (c.credResp.transport \/ ~c.credResp.ok)

\* the transfer of invocation i ended without success
TransferFailed(c) ==
    c.pc = "done" /\ c.transferSent /\ c.completeCalls = 0

\* C1: an uploadFile invocation made while an earlier invocation is in its
\* credential request or its transfer is a no-op: it sends no credential
\* request and starts no transfer.
C1_SecondStartIsNoOp ==
    \A i \in Calls :
        calls[i].inflightAtCall => ~calls[i].credSent /\ ~calls[i].transferSent

\* C2: at most one transfer of the instance is in flight at any time.
C2_AtMostOneTransfer ==
    Cardinality({i \in Calls : calls[i].pc = "transfer"}) <= 1

\* C3: after reset() during the transfer of an attempt, neither
\* onUploadComplete nor onUploadError is invoked for that attempt.
C3_NoCallbackAfterReset ==
    \A i \in Calls :
        calls[i].resetMid => calls[i].completeCalls = 0 /\ calls[i].errorCalls = 0

\* C4: reset() can be called in every state, leaves isUploading and
\* uploadAttempted false, invokes no callback, and a second reset() in a row
\* changes nothing.
C4_ResetIdempotentIdle ==
    [][/\ ENABLED reset
       /\ lastOp' = "reset" =>
            /\ isUploading' = FALSE
            /\ uploadAttempted' = FALSE
            /\ DOMAIN calls' = DOMAIN calls
            /\ \A i \in Calls :
                   /\ calls'[i].completeCalls = calls[i].completeCalls
                   /\ calls'[i].errorCalls = calls[i].errorCalls
                   /\ calls'[i].promise = calls[i].promise
            /\ (lastOp = "reset" => UNCHANGED vars)]_vars

\* reset() has just run while an attempt was transferring
C4_Witness ==
    /\ lastOp = "reset"
    /\ \E i \in Calls : calls[i].pc = "transfer" /\ calls[i].resetMid

\* C5 (as stated): every settled uploadFile invocation has had exactly one of
\* onUploadComplete and onUploadError invoked for it.
C5_ExactlyOneOutcome ==
    \A i \in Calls :
        calls[i].via = "uploadFile" /\ calls[i].pc = "done" =>
            calls[i].completeCalls + calls[i].errorCalls = 1

\* C5 (amended): an invocation stopped by the isUploading guard invokes no
\* callback; an invocation that passed the guard has invoked none while its
\* stages are pending, and once settled its promise carries exactly one
\* outcome: resolved after one onUploadComplete and no onUploadError, or
\* rejected after one onUploadError; each callback is invoked at most once,
\* and both only when the transfer succeeded and onUploadComplete threw.
C5_OneOutcomePerAcceptedCall ==
    \A i \in Calls :
        LET c == calls[i] IN
        c.via = "uploadFile" =>
            /\ c.guardStopped =>
                   c.completeCalls = 0 /\ c.errorCalls = 0 /\ c.promise = "resolved"
            /\ c.pc # "done" =>
                   c.completeCalls = 0 /\ c.errorCalls = 0 /\ c.promise = "pending"
            /\ ~c.guardStopped /\ c.pc = "done" =>
                   /\ c.completeCalls <= 1 /\ c.errorCalls <= 1
                   /\ c.promise \in {"resolved", "rejected"}
                   /\ c.promise = "resolved" <=>
                          (c.completeCalls = 1 /\ c.errorCalls = 0)
                   /\ c.promise = "rejected" <=> c.errorCalls = 1
                   /\ (c.completeCalls = 1 /\ c.errorCalls = 1) =>
                          c.errorArg.kind \in {"callback", "wrapped"}

\* one invocation was stopped by the guard, one completed, and one was
\* rejected
C5_Witness ==
    /\ \E i \in Calls : calls[i].guardStopped
    /\ \E i \in Calls : calls[i].pc = "done" /\ calls[i].promise = "rejected"
                        /\ calls[i].transferSent

\* C6: whenever an attempt started by uploadFile fails in validation, in the
\* credential request or in the transfer, onUploadError is invoked with an
\* error and the promise uploadFile returned is rejected with that same error.
C6_ErrorToCallbackAndPromise ==
    \A i \in Calls :
        LET c == calls[i] IN
        /\ c.via = "uploadFile"
        /\ ~c.guardStopped
        /\ \/ RejectedByPolicy(c.file, allowedFileTypes, maxFileSize)
           \/ CredentialFailed(c)
           \/ TransferFailed(c)
        => /\ c.errorCalls = 1
           /\ c.errorArg # NoError
           /\ c.promise = "rejected"
           /\ c.rejectedWith = c.errorArg

\* C7: when an attempt completes (its transfer succeeded and the code went
\* on to the completion callback), onUploadComplete is invoked with the key
\* that the credential response of the same attempt carried, and the promise
\* uploadFile returned resolves with undefined.
C7_CompleteDeliversOwnKey ==
    \A i \in Calls :
        LET c == calls[i] IN
        c.completeCalls >= 1 =>
            /\ c.credResp.ok
            /\ c.completeArg = c.credResp.key
            /\ c.completeArg # NoKey
            /\ c.via = "uploadFile" =>
                   c.promise = "resolved" /\ c.resolvedWith = "undefined"

\* C8: a transfer is sent only after the credential request of the same
\* attempt came back successfully, and after a failed credential request the
\* attempt is over without a transfer.
C8_TransferOnlyAfterCredential ==
    \A i \in Calls :
        LET c == calls[i] IN
        /\ c.transferSent =>
               c.credSent /\ c.credResp # NoResponse
               /\ c.credResp.ok /\ ~c.credResp.transport
        /\ c.pc = "cred" => ~c.transferSent
        /\ CredentialFailed(c) => ~c.transferSent /\ c.pc = "done"

\* one attempt ended on a non-2xx credential answer, another sent its transfer
C8_Witness ==
    /\ \E i \in Calls : /\ CredentialFailed(calls[i])
                        /\ ~calls[i].credResp.transport
                        /\ calls[i].pc = "done"
    /\ \E i \in Calls : calls[i].transferSent

\* C9: an attempt whose file the validation rejects sends no credential
\* request and no transfer.
C9_ValidationBeforeNetwork ==
    \A i \in Calls :
        RejectedByPolicy(calls[i].file, allowedFileTypes, maxFileSize) =>
            ~calls[i].credSent /\ ~calls[i].transferSent

\* a rejected attempt has settled: its error callback ran
C9_Witness ==
    \E i \in Calls :
        /\ RejectedByPolicy(calls[i].file, allowedFileTypes, maxFileSize)
        /\ ~calls[i].guardStopped
        /\ calls[i].errorCalls = 1

\* C10: uploadFile rejects a file exactly when (allowedFileTypes is not '*'
\* and the type is not in the list) or (size > maxFileSize); the type check
\* comes first, the size error carries no type list.
C10_ValidationRule ==
    \A i \in Calls :
        LET c == calls[i] IN
        ~c.guardStopped =>
            /\ (c.validation # NoError) <=>
                   RejectedByPolicy(c.file, allowedFileTypes, maxFileSize)
            /\ (c.validation = NoError) <=> c.credSent
            /\ c.validation.kind = "size" => c.file.size > maxFileSize
            /\ c.validation.kind = "type" => ~allowedFileTypes.wild

\* a file of an allowed type whose size equals maxFileSize was accepted under
\* a list policy
C10_Witness ==
    /\ ~allowedFileTypes.wild
    /\ maxFileSize > 0
    /\ \E i \in Calls : /\ calls[i].file.size = maxFileSize
                        /\ calls[i].validation = NoError
                        /\ calls[i].credSent

\* under '*' a file of a type no list names was accepted
C10_WitnessWildcard ==
    /\ allowedFileTypes.wild
    /\ \E i \in Calls : calls[i].file.type = "" /\ calls[i].credSent


\* C11 (as stated): the 'too large' message names the limit as
\* floor(maxFileSize / 1,048,576) megabytes.
C11_LimitFloored ==
    \A i \in Calls :
        calls[i].validation.kind = "size" =>
            calls[i].validation.mb = maxFileSize \div MiB

\* C11 (amended): the 'too large' message names the limit as maxFileSize /
\* 1,048,576 rounded to the nearest whole number, a half rounding up.
C11_LimitRounded ==
    \A i \in Calls :
        calls[i].validation.kind = "size" =>
            LET mb == calls[i].validation.mb IN
            /\ 2 * mb * MiB - MiB <= 2 * maxFileSize
            /\ 2 * maxFileSize < 2 * mb * MiB + MiB

\* a file above a limit of one and a half megabytes was rejected with "max 2MB"
C11_Witness ==
    /\ maxFileSize = MiB + (MiB \div 2)
    /\ \E i \in Calls : calls[i].validation.kind = "size" /\ calls[i].validation.mb = 2


\* ======================================================== upload route
\* POST <uploadEndpoint>: handleUpload of src/app/api/upload/route.ts and
\* createPresignedUploadUrl of src/lib/s3.ts

\* number of requests one handler answers in one behaviour
MaxRequests == 2

\* a field the JSON body does not have (undefined after destructuring)
Undefined == "<undefined>"

UndefinedNum == -1

\* !x for a string-valued and for a number-valued field
FalsyStr(x) == x = Undefined \/ x = ""

FalsyNum(x) == x = UndefinedNum \/ x = 0

\* the characters of the strings that occur as file types and in object keys
Chars(t) ==
    CASE t = "audio/mpeg" -> <<"a", "u", "d", "i", "o", "/", "m", "p", "e", "g">>
      [] t = "audio" -> <<"a", "u", "d", "i", "o">>
      [] t = "Audio/Wav" -> <<"A", "u", "d", "i", "o", "/", "W", "a", "v">>
      [] t = "image/png" -> <<"i", "m", "a", "g", "e", "/", "p", "n", "g">>
      [] t = "audio/" -> <<"a", "u", "d", "i", "o", "/">>
      [] t = "*" -> <<"*">>
      [] t = "uploads" -> <<"u", "p", "l", "o", "a", "d", "s">>
      [] t = "a.mp3" -> <<"a", ".", "m", "p", "3">>
      [] t = "d/a.mp3" -> <<"d", "/", "a", ".", "m", "p", "3">>
      [] t = "uuid-1" -> <<"u", "u", "i", "d", "-", "1">>
      [] t = "uuid-2" -> <<"u", "u", "i", "d", "-", "2">>
      [] t = "uuid-3" -> <<"u", "u", "i", "d", "-", "3">>
      [] t = "uuid-4" -> <<"u", "u", "i", "d", "-", "4">>
      [] t = "" -> <<>>
      [] t = Undefined -> <<"u", "n", "d", "e", "f", "i", "n", "e", "d">>

\* String.prototype.startsWith
StartsWith(s, p) == Len(s) >= Len(p) /\ SubSeq(s, 1, Len(p)) = p

\* String.prototype.includes
StrIncludes(s, sub) ==
    \E k \in 0..Len(s) :
        k + Len(sub) <= Len(s) /\ SubSeq(s, k + 1, k + Len(sub)) = sub

\* src/lib/constants.ts
ALLOWED_FILE_TYPES ==
    <<"audio/mpeg", "audio/mp4", "audio/wav", "audio/x-wav", "audio/ogg",
      "audio/webm", "audio/aac">>

MAX_FILE_SIZE == 5 * 1024 * 1024

\* the handlers of app/api/upload/route.ts: the exported POST (project
\* constants, no s3Client) and createUploadHandler(config)
DefaultPOST ==
    [allowedFileTypes |-> TypeList(ALLOWED_FILE_TYPES), maxFileSize |-> MAX_FILE_SIZE,
     s3Client |-> FALSE, created |-> "POST", route |-> "upload"]

createUploadHandler(config) ==
    [allowedFileTypes |-> config.allowedFileTypes, maxFileSize |-> config.maxFileSize,
     s3Client |-> config.s3Client, created |-> "createUploadHandler",
     route |-> "upload"]

\* the handlers of app/api/upload/presigned-url/route.ts: its config has no
\* s3Client
PresignedUrlPOST ==
    [allowedFileTypes |-> TypeList(ALLOWED_FILE_TYPES), maxFileSize |-> MAX_FILE_SIZE,
     s3Client |-> FALSE, created |-> "POST", route |-> "presigned-url"]

createPresignedUrlHandler(config) ==
    [allowedFileTypes |-> config.allowedFileTypes, maxFileSize |-> config.maxFileSize,
     s3Client |-> FALSE, created |-> "createUploadHandler", route |-> "presigned-url"]

\* file types a request declares
RequestTypes == {"audio/mpeg", "audio", "Audio/Wav", "image/png", "*"}

HandlerLists ==
    {WildCard, TypeList(<<"audio/mpeg">>),
     TypeList(<<"audio/mpeg", "audio", "Audio/Wav", "image/png">>)}

HandlerConfigs ==
    {DefaultPOST}
    \cup {createUploadHandler([allowedFileTypes |-> a, maxFileSize |-> m, s3Client |-> c]) :
              a \in HandlerLists, m \in MaxFileSizes, c \in BOOLEAN}

PresignedUrlHandlerConfigs ==
    {PresignedUrlPOST}
    \cup {createPresignedUrlHandler([allowedFileTypes |-> a, maxFileSize |-> m]) :
              a \in HandlerLists, m \in MaxFileSizes}

\* request bodies: one that is not JSON, and JSON objects
BadJson == [json |-> FALSE, fileName |-> Undefined, fileType |-> Undefined,
            fileSize |-> UndefinedNum]

Req(n, t, s) == [json |-> TRUE, fileName |-> n, fileType |-> t, fileSize |-> s]

Requests(m) ==
    {BadJson}
    \cup {Req("a.mp3", t, s) : t \in RequestTypes \cup {"", Undefined},
                               s \in {UndefinedNum, 0, m, m + 1}}
    \cup {Req(n, "audio/mpeg", s) : n \in {Undefined, "", "d/a.mp3"}, s \in {m, m + 1}}
    \cup {Req("a.mp3", "audio/mpeg", 1)}

\* uuidv4(): the n-th call draws the n-th value
Uuids == <<"uuid-1", "uuid-2", "uuid-3", "uuid-4">>

\* responses
NoCredential == [url |-> "none", fields |-> [ContentType |-> "none", key |-> <<>>],
                 key |-> <<>>]

NoSignCall == [Key |-> <<>>, Conditions |-> <<>>, Fields |-> [ContentType |-> "none"],
               Expires |-> 0]

TextResponse(status, text) ==
    [status |-> status, text |-> text, credential |-> NoCredential,
     signCall |-> NoSignCall]

\* a policy condition handed to createPresignedPost
ContentLengthRange(lo, hi) ==
    [op |-> "content-length-range", lo |-> lo, hi |-> hi, field |-> "", prefix |-> ""]

StartsWithCondition(field, prefix) ==
    [op |-> "starts-with", lo |-> 0, hi |-> 0, field |-> field, prefix |-> prefix]


\* if (!fileName || !fileType || !fileSize)
missingFields(req) ==
    FalsyStr(req.fileName) \/ FalsyStr(req.fileType) \/ FalsyNum(req.fileSize)

\* config.allowedFileTypes.includes(fileType): Array.prototype.includes for a
\* list, String.prototype.includes when allowedFileTypes is the string '*'
typeAllowedMutSkip(config, fileType) == TRUE

typeAllowed(config, fileType) ==
    IF config.allowedFileTypes.wild
    THEN StrIncludes(Chars("*"), Chars(fileType))
    ELSE Includes(config.allowedFileTypes.list, fileType)

\* fileSize > config.maxFileSize
tooLargeMutConstant(config, fileSize) == fileSize > MAX_FILE_SIZE

tooLarge(config, fileSize) == fileSize > config.maxFileSize

\* the argument of createPresignedUploadUrl
signArgsMutClientSize(config, req) ==
    [fileName |-> req.fileName, fileType |-> req.fileType,
     maxFileSize |-> req.fileSize]

signArgs(config, req) ==
    [fileName |-> req.fileName, fileType |-> req.fileType,
     maxFileSize |-> config.maxFileSize]

\* createPresignedUploadUrl: the parameters it hands to createPresignedPost
\* and, when that call returns, the {url, fields, key} it returns.  The key
\* `uploads/${uuid}/${fileName}` is the tuple of its three parts.
createPresignedUploadUrlMutNoUuid(args, uuid) ==
    LET key == <<"uploads", Uuids[1], args.fileName>>
        conditions ==
            <<ContentLengthRange(0, args.maxFileSize)>>
            \o (IF StartsWith(Chars(args.fileType), Chars("audio/"))
                THEN <<StartsWithCondition("$Content-Type", "audio/")>> ELSE <<>>)
    IN [call |-> [Key |-> key, Conditions |-> conditions,
                  Fields |-> [ContentType |-> args.fileType], Expires |-> 600],
        result |-> [url |-> "https://bucket.s3.amazonaws.com/",
                    fields |-> [ContentType |-> args.fileType, key |-> key],
                    key |-> key]]

createPresignedUploadUrl(args, uuid) ==
    LET key == <<"uploads", uuid, args.fileName>>
        conditions ==
            <<ContentLengthRange(0, args.maxFileSize)>>
            \o (IF StartsWith(Chars(args.fileType), Chars("audio/"))
                THEN <<StartsWithCondition("$Content-Type", "audio/")>> ELSE <<>>)
    IN [call |-> [Key |-> key, Conditions |-> conditions,
                  Fields |-> [ContentType |-> args.fileType], Expires |-> 600],
        result |-> [url |-> "https://bucket.s3.amazonaws.com/",
                    fields |-> [ContentType |-> args.fileType, key |-> key],
                    key |-> key]]

\* catch (error) { return new NextResponse('Internal Server Error', { status: 500 }) }
routeCatchMutOk(signCall) ==
    [status |-> 200, text |-> "", credential |-> NoCredential, signCall |-> signCall]

routeCatch(signCall) ==
    [status |-> 500, text |-> "Internal Server Error", credential |-> NoCredential,
     signCall |-> signCall]

\* createPresignedPost(s3Client, {...}) of s3.ts: the SDK function reads
\* s3Client.config before anything else, so without a client it throws a
\* TypeError; with one, `signs` says whether it returns (TRUE) or throws
createPresignedPostReturns(s3Client, signs) == s3Client /\ signs

\* handleUpload(request, config); uuid is the value uuidv4() draws
handleUpload(config, req, signs, uuid) ==
    IF ~req.json THEN routeCatch(NoSignCall)
    ELSE IF missingFields(req) THEN TextResponse(400, "Missing required fields")
    ELSE IF ~typeAllowed(config, req.fileType)
    THEN TextResponse(400, "File type not allowed")
    ELSE IF tooLarge(config, req.fileSize) THEN TextResponse(400, "File too large")
    ELSE IF ~config.s3Client THEN TextResponse(400, "Missing s3 client")
    ELSE LET post == createPresignedUploadUrl(signArgs(config, req), uuid) IN
         IF ~createPresignedPostReturns(config.s3Client, signs)
         THEN routeCatch(post.call)
         ELSE [status |-> 200, text |-> "", credential |-> post.result,
               signCall |-> post.call]

\* handleUpload(request, config) of app/api/upload/presigned-url/route.ts:
\* a body that is not JSON is answered 400, the type check is skipped for
\* '*', and createPresignedUploadUrl gets neither maxFileSize nor s3Client,
\* so createPresignedPost is called with an undefined client
handlePresignedUrlUpload(config, req, signs, uuid) ==
    IF ~req.json THEN TextResponse(400, "Invalid JSON in request body")
    ELSE IF missingFields(req) THEN TextResponse(400, "Missing required fields")
    ELSE IF ~config.allowedFileTypes.wild
            /\ ~Includes(config.allowedFileTypes.list, req.fileType)
    THEN TextResponse(400, "File type not allowed")
    ELSE IF tooLarge(config, req.fileSize) THEN TextResponse(400, "File too large")
    ELSE LET post == createPresignedUploadUrl(
                         [fileName |-> req.fileName, fileType |-> req.fileType,
                          maxFileSize |-> UndefinedNum], uuid) IN
         IF ~createPresignedPostReturns(FALSE, signs)
         THEN routeCatch(post.call)
         ELSE [status |-> 200, text |-> "", credential |-> post.result,
               signCall |-> post.call]

\* ------------------------------------------------- upload route specification
ServerInit ==
    /\ handlerConfig \in HandlerConfigs \cup PresignedUrlHandlerConfigs
    /\ handled = <<>>
    /\ xhr = NoXhr
    /\ StorageUnused
    /\ allowedFileTypes = WildCard
    /\ maxFileSize = 0
    /\ onUploadError = "returns"
    /\ file = NoFile
    /\ isUploading = FALSE
    /\ renderedIsUploading = FALSE
    /\ uploadAttempted = FALSE
    /\ effectDeps = <<NoFile, FALSE, FALSE>>
    /\ calls = <<>>
    /\ lastOp = "other"
    /\ pendingEffect = NoEffect
    /\ legacy = NoLegacy

\* the handler answers one more request
HandleUpload(req, signs) ==
    /\ handlerConfig.route = "upload"
    /\ Len(handled) < MaxRequests
    /\ LET resp == handleUpload(handlerConfig, req, signs, Uuids[Len(handled) + 1]) IN
       \* the backend's outcome is an input only when it is called
       /\ resp.signCall = NoSignCall => signs
       /\ handled' = Append(handled, [req |-> req, signs |-> signs, resp |-> resp])
    /\ UNCHANGED <<handlerConfig, client, transfer, storage, legacy>>

\* the handler of the presigned-url route answers one more request
HandlePresignedUrlUpload(req, signs) ==
    /\ handlerConfig.route = "presigned-url"
    /\ Len(handled) < MaxRequests
    /\ LET resp == handlePresignedUrlUpload(handlerConfig, req, signs,
                                            Uuids[Len(handled) + 1]) IN
       /\ resp.signCall = NoSignCall => signs
       /\ handled' = Append(handled,
              [req |-> req,
               signs |-> (resp.signCall = NoSignCall
                          \/ createPresignedPostReturns(FALSE, signs)),
               resp |-> resp])
    /\ UNCHANGED <<handlerConfig, client, transfer, storage, legacy>>

ServerNext ==
    \/ \E req \in Requests(handlerConfig.maxFileSize), signs \in BOOLEAN :
           HandleUpload(req, signs)
    \/ \E req \in Requests(handlerConfig.maxFileSize), signs \in BOOLEAN :
           HandlePresignedUrlUpload(req, signs)

ServerSpec == ServerInit /\ [][ServerNext]_vars


\* --------------------------------------------------- upload route claims
Handled == DOMAIN handled

\* the body is a JSON object that has the three fields
WellFormed(req) ==
    /\ req.json
    /\ req.fileName # Undefined /\ req.fileName # ""
    /\ req.fileType # Undefined /\ req.fileType # ""
    /\ req.fileSize # UndefinedNum

\* the declared type is in the policy's allowed set, or the policy is '*'
InAllowedSet(policy, t) ==
    policy.wild \/ \E i \in DOMAIN policy.list : policy.list[i] = t

\* the request got past the field, type and size checks of handleUpload
PassedServerChecks(h) ==
    h.resp.text \notin {"Missing required fields", "File type not allowed",
                        "File too large", "Internal Server Error"}
    \/ h.resp.signCall # NoSignCall

\* the file types of RequestTypes that begin with "audio/"
AudioTypes == {"audio/mpeg"}

\* C12: for every file type, file size and policy, the check of uploadFile
\* accepts exactly when the checks of handleUpload accept.
C12_ClientServerAgree ==
    \A i \in Handled :
        LET h == handled[i] IN
        WellFormed(h.req) =>
            ((validate([type |-> h.req.fileType, size |-> h.req.fileSize],
                       handlerConfig.allowedFileTypes,
                       handlerConfig.maxFileSize) = NoError)
             <=> PassedServerChecks(h))

\* C13: a request whose fileSize is above the handler's maxFileSize is
\* answered 400 and nothing is signed for it.
C13_OversizeRejected ==
    \A i \in Handled :
        LET h == handled[i] IN
        h.req.json /\ h.req.fileSize > handlerConfig.maxFileSize =>
            /\ h.resp.status = 400
            /\ h.resp.signCall = NoSignCall
            /\ h.resp.credential = NoCredential

\* a request with every field, an allowed type and a size above the limit got
\* 'File too large' from a handler that has an s3Client
C13_Witness ==
    /\ handlerConfig.s3Client
    /\ \E i \in Handled : /\ handled[i].req.fileSize = handlerConfig.maxFileSize + 1
                          /\ handled[i].resp.text = "File too large"

\* C14: under a list policy a request whose fileType is not in the list is
\* answered 400 and createPresignedUploadUrl is not called.
C14_DisallowedTypeRejected ==
    \A i \in Handled :
        LET h == handled[i] IN
        /\ h.req.json
        /\ ~handlerConfig.allowedFileTypes.wild
        /\ ~InAllowedSet(handlerConfig.allowedFileTypes, h.req.fileType)
        => /\ h.resp.status = 400
           /\ h.resp.signCall = NoSignCall
           /\ h.resp.credential = NoCredential

\* a handler with an s3Client answered 'File type not allowed' to a request
\* that is otherwise within the limit
C14_Witness ==
    /\ handlerConfig.s3Client
    /\ ~handlerConfig.allowedFileTypes.wild
    /\ \E i \in Handled : /\ handled[i].resp.text = "File type not allowed"
                          /\ handled[i].req.fileSize = handlerConfig.maxFileSize

\* C15: a request with fileSize <= maxFileSize and a fileType in the allowed
\* set (or under '*') is answered 200 with the key uploads/<uuid>/<fileName>
\* (the handler has an s3Client and the signing call returns).
C15_ValidRequestIssued ==
    \A i \in Handled :
        LET h == handled[i] IN
        /\ WellFormed(h.req)
        /\ h.req.fileSize <= handlerConfig.maxFileSize
        /\ InAllowedSet(handlerConfig.allowedFileTypes, h.req.fileType)
        /\ handlerConfig.s3Client
        /\ h.signs
        => /\ h.resp.status = 200
           /\ h.resp.credential.key = <<"uploads", Uuids[i], h.req.fileName>>

\* C16: a handler whose allowedFileTypes is '*' rejects no request with
\* 'File type not allowed'.
C16_WildcardAllowsAnyType ==
    \A i \in Handled :
        handlerConfig.allowedFileTypes.wild =>
            handled[i].resp.text # "File type not allowed"

\* C17: a body that is not valid JSON is answered with a 4xx status.
C17_BadJsonIsClientError ==
    \A i \in Handled :
        ~handled[i].req.json =>
            handled[i].resp.status >= 400 /\ handled[i].resp.status < 500

\* C18: when the signing call fails for a request that passed every check,
\* the answer is 500 and carries no credential.
C18_SigningFailureIs500 ==
    \A i \in Handled :
        LET h == handled[i] IN
        h.resp.signCall # NoSignCall /\ ~h.signs =>
            /\ h.resp.status = 500
            /\ h.resp.credential = NoCredential

\* the signing call was made for a request and failed
C18_Witness ==
    \E i \in Handled :
        /\ ~handled[i].signs
        /\ handled[i].resp.signCall # NoSignCall
        /\ handled[i].resp.signCall.Key[3] = handled[i].req.fileName

\* C19: every signing call carries the condition content-length-range
\* [0, maxFileSize], the condition starts-with $Content-Type "audio/" exactly
\* when the declared type begins with "audio/", no other condition, and the
\* field Content-Type set to the declared type.
C19_CredentialConditions ==
    \A i \in Handled :
        LET h == handled[i]
            c == h.resp.signCall
        IN c # NoSignCall =>
            /\ Len(c.Conditions) \in {1, 2}
            /\ c.Conditions[1] = ContentLengthRange(0, handlerConfig.maxFileSize)
            /\ Len(c.Conditions) = 2 <=> h.req.fileType \in AudioTypes
            /\ Len(c.Conditions) = 2 =>
                   c.Conditions[2] = StartsWithCondition("$Content-Type", "audio/")
            /\ c.Fields.ContentType = h.req.fileType
            /\ h.resp.status = 200 =>
                   h.resp.credential.fields.ContentType = h.req.fileType

\* C20: any two accepted requests of one handler get the same upper bound of
\* the content-length range, the handler's maxFileSize, whatever fileSize
\* they declare.
C20_ServerChosenSizeLimit ==
    \A i, j \in Handled :
        handled[i].resp.status = 200 /\ handled[j].resp.status = 200 =>
            /\ handled[i].resp.signCall.Conditions[1].hi
                   = handled[j].resp.signCall.Conditions[1].hi
            /\ handled[i].resp.signCall.Conditions[1].hi = handlerConfig.maxFileSize

\* two requests that declare different sizes were both accepted
C20_Witness ==
    \E i, j \in Handled :
        /\ handled[i].resp.status = 200 /\ handled[j].resp.status = 200
        /\ handled[i].req.fileSize # handled[j].req.fileSize

\* ------------------------------------------------------ uploadToS3 in isolation
\* uploadToS3(file, uploadPost) of src/unnamed/part_000, lines 96-129: the
\* FormData it builds, the progress listener, and the settlement of its promise

\* number of progress events the XMLHttpRequest fires in one transfer
MaxProgressEvents == 3

\* uploadPost.fields as Object.entries lists it: <<name, value>> pairs
FieldLists ==
    {<<>>,
     <<<<"Content-Type", "audio/mpeg">>>>,
     <<<<"Content-Type", "audio/mpeg">>, <<"key", "uploads/u1/a">>, <<"Policy", "p">>>>,
     <<<<"Policy", "p">>, <<"key", "uploads/u1/a">>, <<"Content-Type", "audio/mpeg">>>>,
     <<<<"file", "x">>, <<"key", "uploads/u1/a">>>>}

\* the File handed to uploadToS3 (the value of its form entry)
TransferFiles == {"[object File]"}

\* event.total of a length-computable progress event: the size of the request
\* body.  With a power of two the quotient loaded / total and its product with
\* 100 are exact in floating point; with 200 they are not.
Totals == {8, 200}

\* event.loaded: among them 1 of 8 (12.5 percent) and 29, 57 and 115 of 200
\* (14.5, 28.5 and 57.5 percent)
Loads == {0, 1, 4, 8, 29, 57, 115, 200}

\* xhr.status of a load event
TransferStatuses == {200, 201, 204, 403, 500}

\* what Math.round gives for NaN or an infinity: not an integer
NaN == 0 - 1

\* ---- IEEE 754 double arithmetic on positive numbers
\* a double is [m, e]: its 53 significand bits, the first of them 1, and the
\* exponent of that first bit; its value is m[1] * 2^e + m[2] * 2^(e-1) + ...
SignificandBits == 53

Bit(b) == IF b THEN 1 ELSE 0

Zeros(k) == [i \in 1..k |-> 0]

\* scale n / d by powers of two until d <= n < 2d; e is the exponent of the
\* first bit of the quotient
RECURSIVE Normalise(_, _, _)
Normalise(n, d, e) ==
    IF n < d THEN Normalise(2 * n, d, e - 1)
    ELSE IF 2 * d <= n THEN Normalise(n, 2 * d, e + 1)
    ELSE [n |-> n, d |-> d, e |-> e]

\* the first k bits of n / d (d <= n < 2d) by long division, after the bits
\* of acc, and whether a remainder is left
RECURSIVE DivBits(_, _, _, _)
DivBits(n, d, k, acc) ==
    IF Len(acc) = k THEN [bits |-> acc, inexact |-> n > 0]
    ELSE DivBits(2 * (IF n >= d THEN n - d ELSE n), d, k, Append(acc, Bit(n >= d)))

\* bits + 1; one bit longer when every bit was 1
RECURSIVE IncBits(_)
IncBits(m) ==
    IF m = <<>> THEN <<1>>
    ELSE IF m[Len(m)] = 0 THEN SubSeq(m, 1, Len(m) - 1) \o <<1>>
    ELSE IncBits(SubSeq(m, 1, Len(m) - 1)) \o <<0>>

\* round to nearest, ties to even: bits (first bit 1, exponent e) cut to 53
RoundToDouble(bits, e, inexact) ==
    IF Len(bits) <= SignificandBits
    THEN [m |-> bits \o Zeros(SignificandBits - Len(bits)), e |-> e]
    ELSE LET m == SubSeq(bits, 1, SignificandBits)
             guard == bits[SignificandBits + 1]
             sticky == inexact \/ \E i \in (SignificandBits + 2)..Len(bits) : bits[i] = 1
             up == guard = 1 /\ (sticky \/ m[SignificandBits] = 1)
             r == IF up THEN IncBits(m) ELSE m
         IN IF Len(r) > SignificandBits
            THEN [m |-> SubSeq(r, 1, SignificandBits), e |-> e + 1]
            ELSE [m |-> r, e |-> e]

\* loaded / total for positive integers
DoubleDiv(n, d) ==
    LET z == Normalise(n, d, 0)
        q == DivBits(z.n, z.d, SignificandBits + 1, <<>>)
    IN RoundToDouble(q.bits, z.e, q.inexact)

\* bit j of a significand, 0 outside it
BitAt(m, j) == IF j \in 1..Len(m) THEN m[j] ELSE 0

\* the bits of m * 100 = m * 64 + m * 32 + m * 4, from the last one; the sum
\* has seven bits more than m, and acc is the carry followed by the bits
\* already added
RECURSIVE Times100Bits(_, _)
Times100Bits(m, acc) ==
    IF Len(acc) = Len(m) + 8 THEN Tail(acc)
    ELSE Times100Bits(m,
             <<(BitAt(m, Len(m) + 7 - Len(acc)) + BitAt(m, Len(m) + 6 - Len(acc))
                + BitAt(m, Len(m) + 3 - Len(acc)) + acc[1]) \div 2,
               (BitAt(m, Len(m) + 7 - Len(acc)) + BitAt(m, Len(m) + 6 - Len(acc))
                + BitAt(m, Len(m) + 3 - Len(acc)) + acc[1]) % 2>>
             \o Tail(acc))

RECURSIVE StripZeros(_)
StripZeros(bits) ==
    IF bits # <<>> /\ bits[1] = 0 THEN StripZeros(Tail(bits)) ELSE bits

\* the product bits (exponent of the last bit: last) rounded to a double
RoundProduct(bits, last) == RoundToDouble(bits, last + Len(bits) - 1, FALSE)

\* x * 100
DoubleTimes100(x) ==
    RoundProduct(StripZeros(Times100Bits(x.m, <<0>>)),
                 x.e - (SignificandBits - 1))

RECURSIVE IntOfBits(_)
IntOfBits(bits) ==
    IF bits = <<>> THEN 0
    ELSE 2 * IntOfBits(SubSeq(bits, 1, Len(bits) - 1)) + bits[Len(bits)]

\* Math.round of a positive double: the nearest integer, a half rounds up
MathRound(x) ==
    IF x.e < 0 - 1 THEN 0
    ELSE IF x.e = 0 - 1 THEN 1
    ELSE IntOfBits(SubSeq(x.m, 1, x.e + 1))
         + (IF x.e + 2 <= SignificandBits THEN x.m[x.e + 2] ELSE 0)

\* Math.round((loaded / total) * 100), in double arithmetic: the quotient is
\* rounded to a double, and so is its product with 100
percentComplete(loaded, total) ==
    IF total = 0 THEN NaN
    ELSE IF loaded = 0 THEN 0
    ELSE MathRound(DoubleTimes100(DoubleDiv(loaded, total)))

\* formData: every entry of uploadPost.fields appended in turn, then 'file'
formDataMutFileFirst(fields, f) == <<<<"file", f>>>> \o fields

formData(fields, f) == fields \o <<<<"file", f>>>>

\* the 'progress' listener of xhr.upload: the values it hands to
\* onUploadProgress
progressListenerMutNoGuard(event) == <<percentComplete(event.loaded, event.total)>>

progressListener(event) ==
    IF event.lengthComputable
    THEN <<percentComplete(event.loaded, event.total)>>
    ELSE <<>>

\* a ProgressEvent: total is 0 when the length is not computable
ProgressEventOf(lc, loaded, total) ==
    [lengthComputable |-> lc, loaded |-> loaded, total |-> IF lc THEN total ELSE 0]

TransferInit ==
    /\ xhr \in {[NoXhr EXCEPT !.state = "called", !.fields = fl, !.payload = f] :
                    fl \in FieldLists, f \in TransferFiles}
    /\ StorageUnused
    /\ HookUnused

\* uploadToS3 runs to the end of the promise executor: the FormData is built,
\* the listeners are added, xhr.open and xhr.send(formData) are called
Send(total) ==
    /\ xhr.state = "called"
    /\ xhr' = [xhr EXCEPT !.state = "sent", !.body = formData(xhr.fields, xhr.payload),
                          !.total = total, !.promise = "pending"]
    /\ UNCHANGED <<client, legacy, server, storage>>

\* xhr.upload fires 'progress': loaded never decreases and never exceeds the
\* size of the body
ProgressEvent(lc, loaded) ==
    /\ xhr.state = "sent"
    /\ xhr.events < MaxProgressEvents
    /\ xhr.loaded <= loaded
    /\ loaded <= xhr.total
    /\ xhr' = [xhr EXCEPT !.loaded = loaded, !.events = @ + 1,
                          !.progress = @ \o progressListener(
                                           ProgressEventOf(lc, loaded, xhr.total))]
    /\ UNCHANGED <<client, legacy, server, storage>>

\* xhr fires 'load' (with a status) or 'error'
TransferEnd(out) ==
    /\ xhr.state = "sent"
    /\ xhr' = [xhr EXCEPT !.state = "done", !.outcome = out,
                          !.promise = IF uploadToS3(out) = NoError THEN "resolved"
                                      ELSE "rejected"]
    /\ UNCHANGED <<client, legacy, server, storage>>

TransferNext ==
    \/ \E total \in Totals : Send(total)
    \/ \E lc \in BOOLEAN, loaded \in Loads : ProgressEvent(lc, loaded)
    \/ \E status \in TransferStatuses : TransferEnd([event |-> "load", status |-> status])
    \/ TransferEnd([event |-> "error", status |-> 0])

TransferSpec == TransferInit /\ [][TransferNext]_vars

\* --------------------------------------------------------- uploadToS3 claims
\* C23: the promise of uploadToS3 is settled exactly when the XMLHttpRequest
\* ends; it resolves if and only if that end is a load event with status 204,
\* and rejects for every other status (200 and 201 included) and for an error
\* event.
C23_ResolvesIffStatus204 ==
    /\ xhr.state = "sent" => xhr.promise = "pending"
    /\ xhr.state = "done" =>
          /\ xhr.promise \in {"resolved", "rejected"}
          /\ xhr.promise = "resolved" <=>
                 (xhr.outcome.event = "load" /\ xhr.outcome.status = 204)

\* a transfer the backend answered 201 was rejected
C23_Witness ==
    /\ xhr.state = "done"
    /\ xhr.outcome = [event |-> "load", status |-> 201]
    /\ xhr.promise = "rejected"

\* a transfer the backend answered 204 was resolved
C23_WitnessResolved ==
    /\ xhr.state = "done"
    /\ xhr.outcome = [event |-> "load", status |-> 204]
    /\ xhr.promise = "resolved"

\* C24: within one transfer every value handed to onUploadProgress is an
\* integer between 0 and 100, and no value is smaller than the one before it.
C24_ProgressBoundedMonotone ==
    \A i \in DOMAIN xhr.progress :
        /\ xhr.progress[i] \in 0..100
        /\ i > 1 => xhr.progress[i - 1] <= xhr.progress[i]

\* three events, one of them not length-computable: 1 of 8 bytes was reported
\* as 13 (12.5 rounded), then all 8 as 100
C24_Witness ==
    /\ xhr.events = 3
    /\ xhr.total = 8
    /\ xhr.progress = <<13, 100>>

\* C25: the multipart body handed to xhr.send holds the credential's fields in
\* the credential's order, then the file as its last entry, and nothing else.
C25_FieldsThenPayload ==
    xhr.state \in {"sent", "done"} =>
        /\ Len(xhr.body) = Len(xhr.fields) + 1
        /\ \A i \in DOMAIN xhr.fields : xhr.body[i] = xhr.fields[i]
        /\ xhr.body[Len(xhr.body)] = <<"file", xhr.payload>>
        /\ \A i \in DOMAIN xhr.body : i < Len(xhr.body) => xhr.body[i] \in
               {xhr.fields[j] : j \in DOMAIN xhr.fields}

\* 29 of 200 bytes were reported as 14: the double (29 / 200) * 100 is below
\* 14.5
C24_WitnessDouble ==
    /\ xhr.total = 200
    /\ xhr.loaded = 29
    /\ xhr.progress = <<14>>

\* a credential of three fields, one of them not in alphabetical place, was sent
C25_Witness ==
    /\ xhr.state = "sent"
    /\ xhr.fields = <<<<"Policy", "p">>, <<"key", "uploads/u1/a">>,
                      <<"Content-Type", "audio/mpeg">>>>
    /\ Len(xhr.body) = 4


\* ------------------------------------------------------- retry after an outcome
\* invocation j ran an attempt (it passed the guard)
Attempted(j) == j \in Calls /\ ~calls[j].guardStopped

\* C30: an uploadFile invocation made when an earlier attempt has reached its
\* outcome and nothing of the instance is in flight is not stopped by the
\* guard: it runs a fresh attempt (validation, then credential request and
\* transfer).
C30_RetryAfterOutcomeAccepted ==
    \A i \in Calls :
        (/\ calls[i].via = "uploadFile"
         /\ ~calls[i].inflightAtCall
         /\ \E j \in 1..(i - 1) : Attempted(j))
        => ~calls[i].guardStopped


\* ------------------------------------------------------------ object keys
\* the string `uploads/${uuid}/${fileName}` of a key, as its characters
KeyString(key) ==
    Chars(key[1]) \o <<"/">> \o Chars(key[2]) \o <<"/">> \o Chars(key[3])

\* C22: the keys that two calls of createPresignedUploadUrl return are
\* different strings, whatever the file names (equal ones, and ones that hold
\* '/' separators), each call drawing a fresh uuid.
C22_KeysUnique ==
    \A i, j \in Handled :
        (i # j /\ handled[i].resp.status = 200 /\ handled[j].resp.status = 200)
        => KeyString(handled[i].resp.credential.key)
               # KeyString(handled[j].resp.credential.key)

\* two credentials were issued for one file name, and two for names of which
\* one holds a separator
C22_Witness ==
    /\ Len(handled) = 2
    /\ handled[1].resp.status = 200
    /\ handled[2].resp.status = 200
    /\ handled[1].req.fileName = handled[2].req.fileName

C22_WitnessSeparator ==
    /\ Len(handled) = 2
    /\ handled[1].resp.status = 200
    /\ handled[2].resp.status = 200
    /\ handled[1].req.fileName = "a.mp3"
    /\ handled[2].req.fileName = "d/a.mp3"


\* ------------------------------------ storage backend and the download route
\* createPresignedUploadUrl, getSignedUrl and getFileByS3Key of src/lib/s3.ts,
\* handleDownload of src/app/api/download/route.ts, and the storage backend
\* they talk to

\* number of calls of createPresignedUploadUrl in one behaviour
MaxObjects == 1

\* number of download requests and getFileByS3Key calls in one behaviour
MaxDownloads == 1

\* uploads one mounted FileUploader component starts, and changes of its
\* file prop
MaxAttempts == 2

MaxFileChanges == 2

\* maxFileSize of the credentials issued here (bytes)
StorageLimit == 4

\* byte sequences a client uploads: every length from 0 to one above the limit
Payloads ==
    {<<>>, <<255>>, <<77, 97>>, <<77, 97, 110>>, <<0, 255, 16, 131>>,
     <<1, 2, 3, 4, 5>>}

\* the arguments of createPresignedUploadUrl
IssueArgs ==
    {[fileName |-> "a.mp3", fileType |-> "audio/mpeg", maxFileSize |-> StorageLimit],
     [fileName |-> "d/a.mp3", fileType |-> "image/png", maxFileSize |-> StorageLimit]}

\* s3Key of a request body: absent, the empty string, or a key
UndefinedKey == <<Undefined>>

EmptyKey == <<>>

\* a key no credential was issued for
UnknownKey == <<"uploads", "uuid-4", "a.mp3">>

\* !s3Key
FalsyKey(k) == k = UndefinedKey \/ k = EmptyKey

\* Buffer.prototype.toString('base64')
Base64Alphabet ==
    <<"A", "B", "C", "D", "E", "F", "G", "H", "I", "J", "K", "L", "M", "N", "O", "P",
      "Q", "R", "S", "T", "U", "V", "W", "X", "Y", "Z", "a", "b", "c", "d", "e", "f",
      "g", "h", "i", "j", "k", "l", "m", "n", "o", "p", "q", "r", "s", "t", "u", "v",
      "w", "x", "y", "z", "0", "1", "2", "3", "4", "5", "6", "7", "8", "9", "+", "/">>

Base64Char(n) == Base64Alphabet[n + 1]

RECURSIVE toBase64MutNoTail(_)
toBase64MutNoTail(b) ==
    IF Len(b) < 3 THEN <<>>
    ELSE LET n == b[1] * 65536 + b[2] * 256 + b[3] IN
         <<Base64Char(n \div 262144), Base64Char((n \div 4096) % 64),
           Base64Char((n \div 64) % 64), Base64Char(n % 64)>>
         \o toBase64MutNoTail(SubSeq(b, 4, Len(b)))

RECURSIVE toBase64(_)
toBase64(b) ==
    IF Len(b) = 0 THEN <<>>
    ELSE IF Len(b) = 1
    THEN <<Base64Char(b[1] \div 4), Base64Char((b[1] % 4) * 16), "=", "=">>
    ELSE IF Len(b) = 2
    THEN LET n == b[1] * 256 + b[2] IN
         <<Base64Char(n \div 1024), Base64Char((n \div 16) % 64),
           Base64Char((n % 16) * 4), "=">>
    ELSE LET n == b[1] * 65536 + b[2] * 256 + b[3] IN
         <<Base64Char(n \div 262144), Base64Char((n \div 4096) % 64),
           Base64Char((n \div 64) % 64), Base64Char(n % 64)>>
         \o toBase64(SubSeq(b, 4, Len(b)))

\* the download handlers: the exported POST (no options) and
\* createDownloadHandler(options)
DownloadPOST == [s3Client |-> FALSE, onDownload |-> "none", created |-> "POST"]

createDownloadHandler(options) ==
    [s3Client |-> options.s3Client, onDownload |-> options.onDownload,
     created |-> "createDownloadHandler"]

\* onDownload: absent, a hook that returns, a hook that rejects
DownloadHandlers ==
    {DownloadPOST, createDownloadHandler([s3Client |-> FALSE, onDownload |-> "returns"])}
    \cup {createDownloadHandler([s3Client |-> TRUE, onDownload |-> h]) :
              h \in {"none", "returns", "throws"}}

\* request bodies of the download route
BadDownloadJson == [json |-> FALSE, s3Key |-> UndefinedKey, metadata |-> Undefined]

DownloadReq(k, md) == [json |-> TRUE, s3Key |-> k, metadata |-> md]

\* the keys returned so far
IssuedKeys == {issued[i].result.key : i \in DOMAIN issued}

DownloadRequests ==
    {BadDownloadJson, DownloadReq(UndefinedKey, Undefined), DownloadReq(EmptyKey, "m1"),
     DownloadReq(UnknownKey, Undefined)}
    \cup {DownloadReq(k, Undefined) : k \in IssuedKeys}

\* getSignedUrl(key, s3Client): the parameters handed to the presigner and the
\* URL it returns
getSignedUrlMutWriteExpiry(key) ==
    [call |-> [Key |-> key, expiresIn |-> 600], url |-> <<"GET", key>>]

getSignedUrl(key) ==
    [call |-> [Key |-> key, expiresIn |-> 3600], url |-> <<"GET", key>>]

\* the response of fetch(fileUrl)
NoFetch == [threw |-> FALSE, ok |-> FALSE, statusText |-> "none", contentType |-> "",
            body |-> <<>>]

\* the storage backend answers a GET of a signed URL: the object and its
\* content type, or Not Found; net = "fails" is a fetch that throws
fetch(url, net, bkt) ==
    IF net = "fails"
    THEN [threw |-> TRUE, ok |-> FALSE, statusText |-> "", contentType |-> "",
          body |-> <<>>]
    ELSE IF \E o \in bkt : o.key = url[2]
    THEN LET o == CHOOSE o \in bkt : o.key = url[2] IN
         [threw |-> FALSE, ok |-> TRUE, statusText |-> "OK",
          contentType |-> o.contentType, body |-> o.bytes]
    ELSE [threw |-> FALSE, ok |-> FALSE, statusText |-> "Not Found",
          contentType |-> "application/xml", body |-> <<60, 63>>]

\* getFileByS3Key was not called
NotCalled == [called |-> FALSE, threw |-> FALSE, error |-> "", signCalls |-> <<>>,
              gets |-> <<>>, response |-> NoFetch, buffer |-> <<>>, size |-> 0,
              contentType |-> Undefined]

\* getFileByS3Key throws (its catch block logs and rethrows)
Thrown(message, signCalls, gets, response) ==
    [called |-> TRUE, threw |-> TRUE, error |-> message, signCalls |-> signCalls,
     gets |-> gets, response |-> response, buffer |-> <<>>, size |-> 0,
     contentType |-> Undefined]

\* getFileByS3Key(s3Key, s3Client); signs says whether the presigner returns,
\* net whether fetch gets an answer
getFileByS3KeyMutNoOkCheck(s3Key, signs, net, bkt) ==
    IF FalsyKey(s3Key) THEN Thrown("S3 key is required", <<>>, <<>>, NoFetch)
    ELSE LET signed == getSignedUrl(s3Key) IN
         IF ~signs THEN Thrown("presigner failed", <<signed.call>>, <<>>, NoFetch)
         ELSE LET response == fetch(signed.url, net, bkt) IN
              IF response.threw
              THEN Thrown("fetch failed", <<signed.call>>, <<signed.url>>, response)
              ELSE [called |-> TRUE, threw |-> FALSE, error |-> "",
                    signCalls |-> <<signed.call>>, gets |-> <<signed.url>>,
                    response |-> response, buffer |-> response.body,
                    size |-> Len(response.body),
                    contentType |-> IF response.contentType = "" THEN Undefined
                                    ELSE response.contentType]

getFileByS3Key(s3Key, signs, net, bkt) ==
    IF FalsyKey(s3Key) THEN Thrown("S3 key is required", <<>>, <<>>, NoFetch)
    ELSE LET signed == getSignedUrl(s3Key) IN
         IF ~signs THEN Thrown("presigner failed", <<signed.call>>, <<>>, NoFetch)
         ELSE LET response == fetch(signed.url, net, bkt) IN
              IF response.threw
              THEN Thrown("fetch failed", <<signed.call>>, <<signed.url>>, response)
              ELSE IF ~response.ok
              THEN Thrown("Failed to fetch file from S3: " \o response.statusText,
                          <<signed.call>>, <<signed.url>>, response)
              ELSE [called |-> TRUE, threw |-> FALSE, error |-> "",
                    signCalls |-> <<signed.call>>, gets |-> <<signed.url>>,
                    response |-> response, buffer |-> response.body,
                    size |-> Len(response.body),
                    contentType |-> IF response.contentType = "" THEN Undefined
                                    ELSE response.contentType]

\* responses of the download route
NoFileData == [buffer |-> <<>>, size |-> 0, contentType |-> Undefined,
               metadata |-> Undefined]

ErrorResponse(status, message, f, hookCalls) ==
    [status |-> status, error |-> message, data |-> NoFileData, file |-> f,
     onDownloadCalls |-> hookCalls]

\* catch (error): 500 with the message of the error
downloadCatch(message, f, hookCalls) == ErrorResponse(500, message, f, hookCalls)

\* !buffer: a Buffer is an object, so this is false whatever its length
FalsyBuffer(buffer) == FALSE

\* handleDownload(req, options)
handleDownloadMutHookFirst(options, req, signs, net, bkt) ==
    IF ~req.json THEN downloadCatch("Unexpected token", NotCalled, <<>>)
    ELSE IF FalsyKey(req.s3Key)
    THEN ErrorResponse(400, "Missing S3 key", NotCalled, <<>>)
    ELSE IF ~options.s3Client
    THEN ErrorResponse(400, "Missing s3 client", NotCalled, <<>>)
    ELSE IF options.onDownload = "throws"
    THEN downloadCatch("onDownload failed", NotCalled, <<req.s3Key>>)
    ELSE LET f == getFileByS3Key(req.s3Key, signs, net, bkt)
             hookCalls == IF options.onDownload = "none" THEN <<>> ELSE <<req.s3Key>>
         IN
         IF f.threw THEN downloadCatch(f.error, f, hookCalls)
         ELSE IF FalsyBuffer(f.buffer)
         THEN ErrorResponse(404, "File not found", f, hookCalls)
         ELSE [status |-> 200, error |-> "",
               data |-> [buffer |-> toBase64(f.buffer), size |-> f.size,
                         contentType |-> f.contentType,
                         metadata |-> IF req.metadata = Undefined THEN "{}"
                                      ELSE req.metadata],
               file |-> f,
               onDownloadCalls |-> hookCalls]

handleDownloadMutNoKeyCheck(options, req, signs, net, bkt) ==
    IF ~req.json THEN downloadCatch("Unexpected token", NotCalled, <<>>)
    ELSE IF ~options.s3Client
    THEN ErrorResponse(400, "Missing s3 client", NotCalled, <<>>)
    ELSE LET f == getFileByS3Key(req.s3Key, signs, net, bkt) IN
         IF f.threw THEN downloadCatch(f.error, f, <<>>)
         ELSE IF FalsyBuffer(f.buffer) THEN ErrorResponse(404, "File not found", f, <<>>)
         ELSE IF options.onDownload = "throws"
         THEN downloadCatch("onDownload failed", f, <<req.s3Key>>)
         ELSE [status |-> 200, error |-> "",
               data |-> [buffer |-> toBase64(f.buffer), size |-> f.size,
                         contentType |-> f.contentType,
                         metadata |-> IF req.metadata = Undefined THEN "{}"
                                      ELSE req.metadata],
               file |-> f,
               onDownloadCalls |-> IF options.onDownload = "none" THEN <<>>
                                   ELSE <<req.s3Key>>]

handleDownload(options, req, signs, net, bkt) ==
    IF ~req.json THEN downloadCatch("Unexpected token", NotCalled, <<>>)
    ELSE IF FalsyKey(req.s3Key)
    THEN ErrorResponse(400, "Missing S3 key", NotCalled, <<>>)
    ELSE IF ~options.s3Client
    THEN ErrorResponse(400, "Missing s3 client", NotCalled, <<>>)
    ELSE LET f == getFileByS3Key(req.s3Key, signs, net, bkt) IN
         IF f.threw THEN downloadCatch(f.error, f, <<>>)
         ELSE IF FalsyBuffer(f.buffer) THEN ErrorResponse(404, "File not found", f, <<>>)
         ELSE IF options.onDownload = "throws"
         THEN downloadCatch("onDownload failed", f, <<req.s3Key>>)
         ELSE [status |-> 200, error |-> "",
               data |-> [buffer |-> toBase64(f.buffer), size |-> f.size,
                         contentType |-> f.contentType,
                         metadata |-> IF req.metadata = Undefined THEN "{}"
                                      ELSE req.metadata],
               file |-> f,
               onDownloadCalls |-> IF options.onDownload = "none" THEN <<>>
                                   ELSE <<req.s3Key>>]

\* a direct call of getFileByS3Key has no route response
NoDownloadResponse == ErrorResponse(0, "", NotCalled, <<>>)

\* the storage backend accepts a POST of `bytes` under the policy of a
\* credential: the conditions createPresignedUploadUrl asked for hold
PolicyAccepts(post, bytes) ==
    \A i \in DOMAIN post.call.Conditions :
        LET c == post.call.Conditions[i] IN
        /\ c.op = "content-length-range" => (c.lo <= Len(bytes) /\ Len(bytes) <= c.hi)
        /\ c.op = "starts-with" =>
               StartsWith(Chars(post.result.fields.ContentType), Chars(c.prefix))

StorageInit ==
    /\ downloadOptions \in DownloadHandlers
    /\ issued = <<>>
    /\ bucket = {}
    /\ downloads = <<>>
    /\ xhr = NoXhr
    /\ HookUnused

\* createPresignedUploadUrl(args) returns
Issue(args) ==
    /\ Len(issued) < MaxObjects
    /\ LET post == createPresignedUploadUrl(args, Uuids[Len(issued) + 1]) IN
       issued' = Append(issued, [args |-> args, call |-> post.call,
                                 result |-> post.result])
    /\ UNCHANGED <<client, legacy, server, transfer, bucket, downloadOptions, downloads>>

\* a client posts the fields of credential i, then `bytes`, to the backend,
\* which stores them under the credential's key with the Content-Type field
StoragePost(i, bytes) ==
    /\ i \in DOMAIN issued
    /\ ~\E o \in bucket : o.key = issued[i].result.fields.key
    /\ PolicyAccepts(issued[i], bytes)
    /\ bucket' = bucket \cup {[key |-> issued[i].result.fields.key, bytes |-> bytes,
                               contentType |-> issued[i].result.fields.ContentType]}
    /\ UNCHANGED <<client, legacy, server, transfer, issued, downloadOptions, downloads>>

\* the download route answers one request
HandleDownload(req, signs, net) ==
    /\ Len(downloads) < MaxDownloads
    /\ LET resp == handleDownload(downloadOptions, req, signs, net, bucket) IN
       \* the outcomes of the presigner and of fetch are inputs only when called
       /\ resp.file.signCalls = <<>> => signs
       /\ resp.file.gets = <<>> => net = "answers"
       /\ downloads' = Append(downloads, [via |-> "route", req |-> req, resp |-> resp,
                                          file |-> resp.file])
    /\ UNCHANGED <<client, legacy, server, transfer, issued, bucket, downloadOptions>>

\* getFileByS3Key is called directly
GetFile(s3Key, signs, net) ==
    /\ Len(downloads) < MaxDownloads
    /\ LET f == getFileByS3Key(s3Key, signs, net, bucket) IN
       /\ f.signCalls = <<>> => signs
       /\ f.gets = <<>> => net = "answers"
       /\ downloads' = Append(downloads, [via |-> "getFileByS3Key",
                                          req |-> DownloadReq(s3Key, Undefined),
                                          resp |-> NoDownloadResponse, file |-> f])
    /\ UNCHANGED <<client, legacy, server, transfer, issued, bucket, downloadOptions>>

StorageNext ==
    \/ \E args \in IssueArgs : Issue(args)
    \/ \E i \in DOMAIN issued, bytes \in Payloads : StoragePost(i, bytes)
    \/ \E req \in DownloadRequests, signs \in BOOLEAN, net \in {"answers", "fails"} :
           HandleDownload(req, signs, net)
    \/ \E k \in {EmptyKey} \cup IssuedKeys, signs \in BOOLEAN,
          net \in {"answers", "fails"} : GetFile(k, signs, net)

StorageSpec == StorageInit /\ [][StorageNext]_vars


\* ------------------------------------------- storage and download claims
Downloads == DOMAIN downloads

\* the requests the download route answered
RouteDownloads == {d \in Downloads : downloads[d].via = "route"}

\* atob / Buffer.from(text, 'base64'): the bytes a base64 text stands for
Base64Index(c) == CHOOSE n \in 0..63 : Base64Alphabet[n + 1] = c

RECURSIVE fromBase64(_)
fromBase64(s) ==
    IF Len(s) < 4 THEN <<>>
    ELSE LET a == Base64Index(s[1])
             b == Base64Index(s[2])
         IN IF s[3] = "=" THEN <<(a * 64 + b) \div 16>>
            ELSE LET c == Base64Index(s[3]) IN
                 IF s[4] = "="
                 THEN LET n == (a * 4096 + b * 64 + c) \div 4 IN
                      <<n \div 256, n % 256>>
                 ELSE LET n == a * 262144 + b * 4096 + c * 64 + Base64Index(s[4]) IN
                      <<n \div 65536, (n \div 256) % 256, n % 256>>
                      \o fromBase64(SubSeq(s, 5, Len(s)))

\* C21: every write credential is requested with an expiry of 600 seconds and
\* every read credential with an expiry of 3600 seconds, whatever the file
\* name, file type, size limit or key of the request.
C21_FixedLifetimes ==
    /\ \A i \in DOMAIN issued : issued[i].call.Expires = 600
    /\ \A d \in Downloads :
           \A c \in DOMAIN downloads[d].file.signCalls :
               downloads[d].file.signCalls[c].expiresIn = 3600

\* a write credential was requested for d/a.mp3, and a read credential for
\* its key
C21_Witness ==
    /\ Len(issued) = 1
    /\ issued[1].args.fileName = "d/a.mp3"
    /\ Len(downloads) = 1
    /\ Len(downloads[1].file.signCalls) = 1
    /\ downloads[1].file.signCalls[1].Key = issued[1].result.key

\* C26: a download request whose JSON body has no s3Key, or an empty one, is
\* answered 400 and neither a read credential is signed nor a GET made.
C26_MissingKeyIs400 ==
    \A d \in RouteDownloads :
        (downloads[d].req.json /\ FalsyKey(downloads[d].req.s3Key))
        => /\ downloads[d].resp.status = 400
           /\ ~downloads[d].file.called
           /\ downloads[d].file.signCalls = <<>>
           /\ downloads[d].file.gets = <<>>

\* a handler that has an s3Client answered a request with an empty s3Key
C26_Witness ==
    /\ downloadOptions.s3Client
    /\ \E d \in RouteDownloads :
           /\ downloads[d].req = DownloadReq(EmptyKey, "m1")
           /\ downloads[d].resp.status = 400

\* C27: when the object fetched for the key has no bytes, the download route
\* answers 404.
C27_EmptyObjectIs404 ==
    \A d \in RouteDownloads :
        (/\ downloads[d].file.called
         /\ ~downloads[d].file.threw
         /\ Len(downloads[d].file.buffer) = 0)
        => downloads[d].resp.status = 404

\* C28: getFileByS3Key fails for an empty key without signing or fetching
\* anything, fails whenever the presigner or fetch fails or the response is
\* not ok, and what it returns is the body of an ok response to the one GET
\* it made, with size the number of those bytes.
C28_FetchObject ==
    \A d \in Downloads :
        LET f == downloads[d].file IN
        f.called =>
            /\ FalsyKey(downloads[d].req.s3Key) =>
                   (f.threw /\ f.signCalls = <<>> /\ f.gets = <<>>)
            /\ (f.gets = <<>> \/ f.response.threw \/ ~f.response.ok) => f.threw
            /\ ~f.threw =>
                   /\ Len(f.signCalls) = 1
                   /\ f.signCalls[1].Key = downloads[d].req.s3Key
                   /\ Len(f.gets) = 1
                   /\ f.response.ok
                   /\ f.buffer = f.response.body
                   /\ f.size = Len(f.buffer)

\* a direct call returned the three bytes of a stored object
C28_Witness ==
    \E d \in Downloads :
        /\ downloads[d].via = "getFileByS3Key"
        /\ ~downloads[d].file.threw
        /\ downloads[d].file.buffer = <<77, 97, 110>>
        /\ downloads[d].file.size = 3

\* a direct call with the empty key threw
C28_WitnessEmptyKey ==
    \E d \in Downloads :
        /\ downloads[d].via = "getFileByS3Key"
        /\ downloads[d].req.s3Key = EmptyKey
        /\ downloads[d].file.threw

\* a direct call for a key nothing is stored under threw after its GET was
\* answered Not Found
C28_WitnessNotFound ==
    \E d \in Downloads :
        /\ downloads[d].via = "getFileByS3Key"
        /\ downloads[d].file.response.statusText = "Not Found"
        /\ downloads[d].file.threw

\* C29: a download of the key of an issued credential, through a handler that
\* has an s3Client and whose onDownload does not fail, after bytes B were
\* posted under that credential, is answered 200 when the GET is answered; the
\* base64 text of a 200 answer decodes to B, its size is the length of B and
\* its contentType is the file type the credential was issued for.
C29_RoundTrip ==
    \A d \in RouteDownloads :
        \A i \in DOMAIN issued :
            \A o \in bucket :
                (/\ downloads[d].req.s3Key = issued[i].result.key
                 /\ o.key = issued[i].result.key)
                => /\ (/\ downloads[d].file.response.ok
                       /\ downloadOptions.onDownload # "throws")
                      => downloads[d].resp.status = 200
                   /\ downloads[d].resp.status = 200 =>
                          /\ fromBase64(downloads[d].resp.data.buffer) = o.bytes
                          /\ downloads[d].resp.data.size = Len(o.bytes)
                          /\ downloads[d].resp.data.contentType
                                 = issued[i].args.fileType

\* a two-byte object (one padding character) came back
C29_Witness ==
    \E d \in RouteDownloads :
        /\ downloads[d].resp.status = 200
        /\ downloads[d].resp.data.buffer = <<"T", "W", "E", "=">>
        /\ downloads[d].resp.data.size = 2
        /\ downloads[d].resp.data.contentType = "image/png"

\* an empty object came back
C29_WitnessEmpty ==
    \E d \in RouteDownloads :
        /\ downloads[d].resp.status = 200
        /\ downloads[d].resp.data.size = 0


\* ----------------------------------------------------- in-flight and callbacks
\* C32: whenever an attempt of the instance has its credential request or its
\* transfer in flight, isUploading is true; neither reset() nor the end of
\* another attempt sets it to false before then.
C32_InFlightImpliesUploading ==
    (\E i \in Calls : InFlight(calls[i])) => isUploading

\* C34: no attempt has invoked both onUploadComplete and onUploadError, also
\* when onUploadComplete throws.
C34_CallbacksExclusive ==
    \A i \in Calls : ~(calls[i].completeCalls > 0 /\ calls[i].errorCalls > 0)


\* ------------------------------------------------------- the onDownload hook
\* getFileByS3Key returned the object
FetchedOk(d) ==
    /\ downloads[d].file.called
    /\ ~downloads[d].file.threw
    /\ downloads[d].file.response.ok

\* C36: a handler that has an onDownload hook invokes it once, with the
\* requested s3Key, for every request it answers 200, and only after
\* getFileByS3Key returned the object; it does not invoke it for a request
\* without a key or whose fetch failed; when the hook fails the answer is 500
\* without file data.  A handler without a hook invokes nothing.
C36_OnDownloadHook ==
    \A d \in RouteDownloads :
        LET r == downloads[d].resp IN
        /\ downloadOptions.onDownload = "none" => r.onDownloadCalls = <<>>
        /\ downloadOptions.onDownload # "none" =>
               /\ r.status = 200 => r.onDownloadCalls = <<downloads[d].req.s3Key>>
               /\ r.onDownloadCalls # <<>> =>
                      /\ r.onDownloadCalls = <<downloads[d].req.s3Key>>
                      /\ FetchedOk(d)
               /\ (~downloads[d].req.json \/ FalsyKey(downloads[d].req.s3Key)
                   \/ ~FetchedOk(d)) => r.onDownloadCalls = <<>>
               /\ (downloadOptions.onDownload = "throws" /\ r.onDownloadCalls # <<>>) =>
                      (r.status = 500 /\ r.data = NoFileData)

\* a request was answered 200 after the hook was invoked with its key
C36_Witness ==
    \E d \in RouteDownloads :
        /\ downloadOptions.onDownload = "returns"
        /\ downloads[d].resp.status = 200
        /\ downloads[d].resp.onDownloadCalls = <<downloads[d].req.s3Key>>

\* the hook failed after a successful fetch
C36_WitnessHookFails ==
    \E d \in RouteDownloads :
        /\ downloadOptions.onDownload = "throws"
        /\ FetchedOk(d)
        /\ downloads[d].resp.status = 500

\* the hook was not invoked for a fetch that failed
C36_WitnessFetchFails ==
    \E d \in RouteDownloads :
        /\ downloadOptions.onDownload = "returns"
        /\ downloads[d].file.called
        /\ downloads[d].file.threw
        /\ downloads[d].resp.status = 500


\* ------------------------------------------- both routes of one deployment
\* the upload handler and the download handler an application mounts: the
\* exported POST functions, or handlers made by createUploadHandler and
\* createDownloadHandler, without and with an s3Client; the upload handler is
\* that of app/api/upload/route.ts or of app/api/upload/presigned-url/route.ts
Deployments ==
    {<<DefaultPOST, DownloadPOST>>, <<PresignedUrlPOST, DownloadPOST>>}
    \cup {<<createPresignedUrlHandler([allowedFileTypes |-> a, maxFileSize |-> m]),
            createDownloadHandler([s3Client |-> FALSE, onDownload |-> "returns"])>> :
              a \in {WildCard, TypeList(<<"audio/mpeg">>)}, m \in MaxFileSizes}
    \cup {<<createUploadHandler([allowedFileTypes |-> a, maxFileSize |-> m,
                                 s3Client |-> c]),
            createDownloadHandler([s3Client |-> c, onDownload |-> "returns"])>> :
              a \in {WildCard, TypeList(<<"audio/mpeg">>)}, m \in MaxFileSizes,
              c \in BOOLEAN}

\* an object the bucket already holds
StoredObject == [key |-> UnknownKey, bytes |-> <<77, 97, 110>>, contentType |-> "audio/mpeg"]

\* request bodies sent to the upload route
RouteRequests(m) ==
    {BadJson, Req("a.mp3", "audio/mpeg", m), Req("a.mp3", "audio/mpeg", m + 1),
     Req("a.mp3", "image/png", 1), Req("a.mp3", "*", 1), Req(Undefined, "audio/mpeg", m)}

RoutesInit ==
    /\ \E d \in Deployments : handlerConfig = d[1] /\ downloadOptions = d[2]
    /\ handled = <<>>
    /\ issued = <<>>
    /\ bucket = {StoredObject}
    /\ downloads = <<>>
    /\ xhr = NoXhr
    /\ allowedFileTypes = WildCard
    /\ maxFileSize = 0
    /\ onUploadError = "returns"
    /\ file = NoFile
    /\ isUploading = FALSE
    /\ renderedIsUploading = FALSE
    /\ uploadAttempted = FALSE
    /\ effectDeps = <<NoFile, FALSE, FALSE>>
    /\ calls = <<>>
    /\ lastOp = "other"
    /\ pendingEffect = NoEffect
    /\ legacy = NoLegacy

RoutesNext ==
    \/ \E req \in RouteRequests(handlerConfig.maxFileSize), signs \in BOOLEAN :
           HandleUpload(req, signs)
    \/ \E req \in RouteRequests(handlerConfig.maxFileSize), signs \in BOOLEAN :
           HandlePresignedUrlUpload(req, signs)
    \/ \E req \in DownloadRequests, signs \in BOOLEAN, net \in {"answers", "fails"} :
           HandleDownload(req, signs, net)

RoutesSpec == RoutesInit /\ [][RoutesNext]_vars

\* the request gets past the JSON parse and the field, type and size checks
\* of the handler's route
PassesUploadChecks(config, req) ==
    /\ req.json
    /\ ~missingFields(req)
    /\ IF config.route = "presigned-url"
       THEN config.allowedFileTypes.wild
            \/ Includes(config.allowedFileTypes.list, req.fileType)
       ELSE typeAllowed(config, req.fileType)
    /\ ~tooLarge(config, req.fileSize)

\* the request gets past the JSON parse and the key check
PassesDownloadChecks(req) == req.json /\ ~FalsyKey(req.s3Key)

\* C35: a handler without an s3Client never contacts the storage backend:
\* every request that passes the earlier checks is answered 400 'Missing s3
\* client', and no answer carries a credential or file data.  The exported
\* POST handlers of both routes are such handlers.
C35_NoClientNoBackend ==
    /\ handlerConfig.created = "POST" => ~handlerConfig.s3Client
    /\ downloadOptions.created = "POST" => ~downloadOptions.s3Client
    /\ ~handlerConfig.s3Client =>
           \A i \in Handled :
               LET h == handled[i] IN
               /\ h.resp.signCall = NoSignCall
               /\ h.resp.credential = NoCredential
               /\ h.resp.status # 200
               /\ PassesUploadChecks(handlerConfig, h.req) =>
                      (h.resp.status = 400 /\ h.resp.text = "Missing s3 client")
    /\ ~downloadOptions.s3Client =>
           \A d \in RouteDownloads :
               LET r == downloads[d].resp IN
               /\ ~r.file.called
               /\ r.file.signCalls = <<>>
               /\ r.file.gets = <<>>
               /\ r.data = NoFileData
               /\ r.onDownloadCalls = <<>>
               /\ r.status # 200
               /\ PassesDownloadChecks(downloads[d].req) =>
                      (r.status = 400 /\ r.error = "Missing s3 client")


\* C33: the effect's performUpload never sends a credential request or starts
\* a transfer for a file that an earlier uploadFile invocation sent a
\* credential request for: one accepted uploadFile, one request, one transfer.
C33_EffectStartsNoUpload ==
    \A i, j \in Calls :
        (/\ i < j
         /\ calls[i].via = "uploadFile" /\ calls[i].credSent
         /\ calls[j].via = "effect" /\ calls[j].file = calls[i].file)
        => (~calls[j].credSent /\ ~calls[j].transferSent)


\* ------------------------------------------------------------- termination
\* every started network operation eventually completes: a pending fetch of
\* the upload endpoint settles, and a sent XMLHttpRequest fires load or error
NetworkCompletes ==
    \A i \in 1..MaxCalls :
        /\ WF_vars(\E resp \in HookCredResponses(i) : CredentialResponse(i, resp))
        /\ WF_vars(\E out \in XhrOutcomes, cb \in CallbackBehaviours :
                       TransferResult(i, out, cb))

LiveSpec == Init /\ [][Next]_vars /\ NetworkCompletes

\* invocation i has ended with onUploadComplete or onUploadError invoked
Terminal(c) == c.pc = "done" /\ c.completeCalls + c.errorCalls >= 1

\* every invocation that has a network operation pending eventually ends with
\* a terminal callback
C31_EventuallyTerminal ==
    \A i \in 1..MaxCalls :
        (i \in Calls /\ InFlight(calls[i])) ~> (i \in Calls /\ Terminal(calls[i]))

\* the step that ends an invocation leaves isUploading and uploadAttempted false
C31_FlagsClearedAtEnd ==
    [][\A i \in Calls :
           (InFlight(calls[i]) /\ calls'[i].pc = "done") =>
               (Terminal(calls'[i]) /\ ~isUploading' /\ ~uploadAttempted')]_vars

\* isUploading goes from true to false only by reset() or in the step that
\* ends a pending network operation
C31_UploadingUntilCompletion ==
    [][(isUploading /\ ~isUploading') =>
           (lastOp' = "reset"
            \/ \E i \in Calls : InFlight(calls[i]) /\ calls'[i].pc = "done")]_vars

\* C31: when every started network operation eventually completes, every
\* accepted uploadFile invocation eventually reaches a terminal callback, and
\* afterwards isUploading and uploadAttempted are false; while its network
\* operations do not complete and reset is not called, isUploading stays true.
C31_TerminatesOrStaysUploading ==
    /\ C31_EventuallyTerminal
    /\ C31_FlagsClearedAtEnd
    /\ C31_UploadingUntilCompletion


\* ------------------------------------------- the FileUploader component
\* the two versions of the component: the first (useState only) and the
\* second (with the uploadAttempted ref).  legacy.isUploading is its state,
\* legacy.file its file prop, legacy.fileChanges counts the changes of that
\* prop, and each attempt is one run of the effect's uploadFile.
LegacyFiles(m) ==
    {[type |-> "audio/mpeg", size |-> m], [type |-> "audio/mpeg", size |-> m - 1],
     [type |-> "audio/mpeg", size |-> m + 1]}

\* getPresignedUrl: the Error it throws for a response, NoError when it
\* returns the parsed body
getPresignedUrl(version, resp) ==
    IF resp.transport THEN MkError("transport", "Failed to fetch")
    ELSE IF ~resp.ok
    THEN MkError("credential",
                 IF version = 2 /\ resp.message # "" THEN resp.message
                 ELSE "Failed to get presigned URL")
    ELSE NoError

\* the component is mounted without a file: its effect returned at `!file`
LegacyInit ==
    /\ \E v \in {1, 2} :
           /\ legacy = [NoLegacy EXCEPT !.version = v]
           /\ allowedFileTypes \in (IF v = 1 THEN {TypeList(<<"audio/mpeg">>)}
                                    ELSE AllowedChoices)
    /\ maxFileSize \in MaxFileSizes
    /\ onUploadError \in ErrorCallbackBehaviours
    /\ file = NoFile
    /\ isUploading = FALSE
    /\ renderedIsUploading = FALSE
    /\ uploadAttempted = FALSE
    /\ effectDeps = <<NoFile, FALSE, FALSE>>
    /\ calls = <<>>
    /\ lastOp = "other"
    /\ pendingEffect = NoEffect
    /\ handlerConfig = NoHandler
    /\ handled = <<>>
    /\ xhr = NoXhr
    /\ StorageUnused

\* an earlier attempt for the current value of the file prop has ended with
\* onUploadComplete or onUploadError
OutcomeReached(l) ==
    \E i \in DOMAIN l.attempts :
        /\ l.attempts[i].epoch = l.fileChanges
        /\ l.attempts[i].call.pc = "done"
        /\ l.attempts[i].call.completeCalls + l.attempts[i].call.errorCalls >= 1

\* the component renders with file prop f (the parent rendered, or its own
\* state changed) and React commits: finalConfig is a new object in every
\* render, so the dependency list always differs and the effect of this render
\* is scheduled, with the file and isUploading of this render in its closure.
\* Effects of the previous render are flushed before the next one.
LegacyCommit(f) ==
    /\ ~pendingEffect.pending
    /\ f # legacy.file => legacy.fileChanges < MaxFileChanges
    /\ legacy' = [legacy EXCEPT !.file = f,
                                !.fileChanges = IF f # legacy.file THEN @ + 1 ELSE @]
    /\ pendingEffect' = [pending |-> TRUE, file |-> f, isUploading |-> legacy.isUploading]
    /\ UNCHANGED <<props, file, isUploading, renderedIsUploading, uploadAttempted,
                   effectDeps, calls, lastOp, server, transfer, storage>>

\* the scheduled effect runs: its guard reads the file and isUploading of the
\* render that created it (and, in the second version, the current
\* uploadAttempted.current); uploadFile then runs up to its first await
LegacyRunEffect ==
    /\ pendingEffect.pending
    /\ pendingEffect' = NoEffect
    /\ IF \/ pendingEffect.file = NoFile
          \/ pendingEffect.isUploading
          \/ (legacy.version = 2 /\ legacy.uploadAttempted)
       THEN legacy' = legacy
       ELSE /\ Len(legacy.attempts) < MaxAttempts
            /\ LET c0 == NewCall("effect", pendingEffect.file,
                                 \E i \in DOMAIN legacy.attempts :
                                     InFlight(legacy.attempts[i].call))
                   c1 == tryBlock(c0, allowedFileTypes, maxFileSize, onUploadError)
               IN legacy' = [legacy EXCEPT
                      !.attempts = Append(@, [call |-> c1, epoch |-> legacy.fileChanges,
                                              afterOutcome |-> OutcomeReached(legacy)]),
                      !.isUploading = (c1.pc # "done"),
                      !.uploadAttempted = (legacy.version = 2)]
    /\ UNCHANGED <<props, file, isUploading, renderedIsUploading, uploadAttempted,
                   effectDeps, calls, lastOp, server, transfer, storage>>

\* the fetch of attempt i settles; getPresignedUrl returns or throws, and on
\* success uploadToS3 calls xhr.send
LegacyCredentialResponse(i, resp) ==
    /\ i \in DOMAIN legacy.attempts
    /\ legacy.attempts[i].call.pc = "cred"
    /\ LET e == getPresignedUrl(legacy.version, resp)
           c == [legacy.attempts[i].call EXCEPT !.credResp = resp]
       IN IF e = NoError
          THEN legacy' = [legacy EXCEPT !.attempts[i].call =
                              [c EXCEPT !.pc = "transfer", !.key = resp.key,
                                        !.transferSent = TRUE]]
          ELSE legacy' = [legacy EXCEPT !.attempts[i].call =
                              [catchBlock(c, e, onUploadError) EXCEPT !.pc = "done"],
                                        \* finally { setIsUploading(false) }
                                        !.isUploading = FALSE]
    /\ UNCHANGED <<client, server, transfer, storage>>

\* the XMLHttpRequest of attempt i ends; the rest of the try block, the catch
\* block and the finally block run
LegacyTransferResult(i, out, cb) ==
    /\ i \in DOMAIN legacy.attempts
    /\ legacy.attempts[i].call.pc = "transfer"
    /\ LET e == uploadToS3(out)
           c == legacy.attempts[i].call
       IN /\ (e # NoError => cb = "returns")
          /\ legacy' = [legacy EXCEPT
                 !.attempts[i].call =
                     [(IF e # NoError THEN catchBlock(c, e, onUploadError)
                       ELSE IF cb = "returns" THEN completeBlock(c)
                       ELSE catchBlock(completeThrows(c), asError(cb), onUploadError))
                      EXCEPT !.pc = "done"],
                 !.isUploading = FALSE]
    /\ UNCHANGED <<client, server, transfer, storage>>

LegacyNext ==
    \/ \E f \in LegacyFiles(maxFileSize) : LegacyCommit(f)
    \/ LegacyRunEffect
    \/ \E i \in 1..MaxAttempts : \E resp \in CredResponses(i) :
           LegacyCredentialResponse(i, resp)
    \/ \E i \in 1..MaxAttempts, out \in XhrOutcomes, cb \in CallbackBehaviours :
           LegacyTransferResult(i, out, cb)

LegacySpec == LegacyInit /\ [][LegacyNext]_vars

\* C37: the first version of the component uploads a file value once: after an
\* attempt for the current file prop has ended with onUploadComplete or
\* onUploadError, no credential request and no transfer is started until the
\* file prop changes.
C37_UploadsFileOnce ==
    legacy.version = 1 =>
        \A j \in DOMAIN legacy.attempts :
            legacy.attempts[j].afterOutcome =>
                (~legacy.attempts[j].call.credSent /\ ~legacy.attempts[j].call.transferSent)

\* the second version never starts a second attempt, for any file
C37_SecondVersionOnce ==
    legacy.version = 2 => Len(legacy.attempts) <= 1

\* the second version has completed an upload and the file prop changed after it
C37_SecondVersionWitness ==
    /\ legacy.version = 2
    /\ \E i \in DOMAIN legacy.attempts :
           /\ legacy.attempts[i].call.completeCalls = 1
           /\ legacy.attempts[i].epoch < legacy.fileChanges

====
